---- MODULE Spec2Model ----
(***************************************************************************)
(* PushToTalk: the push-to-talk session lifecycle (backend state machine,  *)
(* overlay window, main window), the race/fallback coordinator, the       *)
(* configuration sync-window controller, the streaming ASR client, the     *)
(* notice capsule, the utility functions, the debounced auto-save and the  *)
(* effect that registers the event listeners.                              *)
(*                                                                         *)
(* The Rust backend (src-tauri/) is modelled from the specification; the   *)
(* overlay window, the main window's event listeners and the sync-window   *)
(* controller are translated from the TypeScript sources.                  *)
(*                                                                         *)
(* Time is discrete: one tick is one watchdog interval (500 ms).  Event    *)
(* delivery and timer callbacks take no time: Tick is disabled while an    *)
(* event is queued or a timer is due.                                      *)
(***************************************************************************)
EXTENDS Integers, Sequences, FiniteSets, TLC

(* ------------------------------------------------------------------ *)
(* Program constants                                                    *)
(* ------------------------------------------------------------------ *)
WATCHDOG_INTERVAL_MS == 500
LOCK_TIMEOUT_MS == 60000
TRANSCRIBING_TIMEOUT_MS == 15000
REQUEST_TIMEOUT_MS == 6000

\* mutant: one retry more
MAX_RETRIES_Three == 2 + 1

\* a failed try is retried at most twice
MAX_RETRIES == 2

\* useNoticeMachine: timing constants
ENTRY_DELAY_MS == 80
ENTER_ANIM_MS == 180
EXIT_ANIM_MS == 120
MIN_VISIBLE_MS == 600
SUCCESS_HOLD_MS == 1200
ERROR_HOLD_MS == 2200

\* resolveGlobalNotice: the download progress is at most 100 percent
PROGRESS_MAX == 100

(* ------------------------------------------------------------------ *)
(* Bounds of the model                                                  *)
(* ------------------------------------------------------------------ *)
NumProviders == 2
MaxQueue == 2
MaxCoordSessions == 2
MaxStale == 1
MaxBegins == 3
MaxAudioLen == 3
MaxSegmentSize == 2

\* distinct messages of notices
NumMessages == 1

\* length of the strings given to the utility functions
MaxStringLen == 2

\* how far, in halves of a percent, a download progress lies outside 0..100
MaxOvershoot == 3
\* the longest list of domains normalizeBuiltinDictionaryDomains is given,
\* and the largest limit besides the default one
MaxDomains == 3
MaxLimit == 2
\* the most calls of handleSaveConfig in flight at once
MaxSaves == 1
\* the most runs of the listener effect (mount, and remounts after cleanup)
MaxMounts == 2
\* the distinct values of the hot-updatable settings, and the most calls of
\* update_runtime_config in flight at once
NumConfigs == 2
MaxApplies == 2

TickMs == WATCHDOG_INTERVAL_MS
WatchdogTicks == WATCHDOG_INTERVAL_MS \div TickMs
LockTimeoutTicks == LOCK_TIMEOUT_MS \div TickMs
TranscribingTimeoutTicks == TRANSCRIBING_TIMEOUT_MS \div TickMs
RequestTimeoutTicks == REQUEST_TIMEOUT_MS \div TickMs
MaxTries == MAX_RETRIES + 1
\* the sum of the configured timeouts and retries across providers
TranscribeBoundTicks == NumProviders * MaxTries * RequestTimeoutTicks

TimerOff == 0 - 1

VARIABLES
  \* backend state machine
  state,          \* "Idle" | "Recording" | "Locked" | "Transcribing"
  physDown,       \* the dictation hotkey is physically held
  capture,        \* number of open capture streams
  active,         \* number of active recording sessions
  \* time
  wdElapsed,      \* ticks since the watchdog last ran
  transElapsed,   \* ticks the backend has been Transcribing
  lockedFor,      \* ticks the backend has been Locked
  ghostFor,       \* ticks the ghost-key condition has lasted
  \* events emitted by the backend and not yet handled by the windows
  evq,
  \* overlay window (React state and timers)
  ovStatus,       \* "recording" | "transcribing"
  isLocked,
  isSubmitting,
  lockTimer,      \* TimerOff, or ticks since the 60 s timeout was set
  transTimer,     \* TimerOff, or ticks since the 15 s timeout was set
  \* main window
  mainStatus,     \* AppStatus
  \* the command the last step invoked and who invoked it (NoCmd when it
  \* invoked none), and whether the backend accepted it
  lastCmd,
  lastOk,
  \* race/fallback coordinator
  cPolicy,        \* "race" | "fallback"
  cPhase,         \* "idle" | "running" | "done"
  cSession,       \* identity token of the coordinator's current session
  att,            \* per provider: the attempt's status, tries and last error
  slot,           \* the winning-result slot
  writes,         \* results produced by attempts and not yet applied
  cOutcome,       \* what the coordinator returns
  cFailure,       \* the aggregate failure: the error named for each provider
  lastErr,        \* the error of each provider's latest failed try
  cLast,          \* the coordinator's last step
  \* configuration sync-window controller
  activeToken,
  activeSource,
  tokenSeed,
  pending,        \* scheduled releases: token and stage
  syncLast,       \* the controller's last call and what it returned
  \* streaming ASR client
  wsPhase,        \* "idle" | "connected" | "streaming" | "closed"
  wsSeq,          \* self.seq
  wsSegments,     \* audio_segments
  wsSent,         \* the requests sent on the connection, in order
  wsIn,           \* the message last given to parse_response
  wsResp,         \* what parse_response returned for it
  \* notice capsule
  notice,         \* noticeRef.current: Null or Some(payload)
  effectPending,  \* the effect of a changed noticeKey has yet to run
  phase,          \* NoticePhase
  displayed,      \* Null or Some(payload)
  entryDelayRef,  \* timers: Null, or Some(ticks left)
  enterAnimRef,
  holdRef,
  exitAnimRef,
  elapsed,        \* Date.now() - stableAtRef.current, in ticks, capped
  visibleFor,     \* ticks since the capsule left hidden, capped; 0 while hidden
  clearedFor,     \* ticks the capsule was shown since the notice source changed last
  noticeAge,      \* ticks since the notice source became present, capped; 0 while absent
  enteredFrom,    \* how the current entering phase began
  morphedFrom,    \* what was displayed before the last replacement in place
  \* utility functions
  fnCall,         \* the last call: function, argument and result
  \* debounced auto-save of the configuration (App.tsx)
  status,                  \* AppStatus, as rendered
  statusRef,
  autoSaveTimerRef,        \* Null, or Some(id) of the timer last set
  autoSaveArmed,           \* the timer last set has neither fired nor been cleared
  hasLoadedConfigRef,
  configLoadEpochRef,
  lastSeenConfigEpochRef,
  saves,                   \* the calls of handleSaveConfig in flight
  saveLast,                \* the auto-save's last step
  \* hot update of the runtime configuration (App.tsx)
  hotConfig,               \* the hot-updatable settings, by their hash
  lastAppliedConfigHashRef,\* Null, or Some(hash)
  applies,                 \* per hash: the calls of update_runtime_config in flight
  applyLast,               \* the hot update's last step
  \* the effect that registers the event listeners (OverlayWindow.tsx)
  mounts,                  \* per run of the effect: setup's position and closure
  subscribed,              \* the listeners the event system holds: <<run, event>>
  listenLast               \* the effect's last step

backVars == <<state, physDown, capture, active>>
timeVars == <<wdElapsed, transElapsed, lockedFor, ghostFor>>
queueVars == <<evq>>
ovVars == <<ovStatus, isLocked, isSubmitting, lockTimer, transTimer>>
mainVars == <<mainStatus>>
histVars == <<lastCmd, lastOk>>
sessVars == <<backVars, timeVars, queueVars, ovVars, mainVars, histVars>>

coordVars ==
  <<cPolicy, cPhase, cSession, att, slot, writes, cOutcome, cFailure, lastErr, cLast>>
syncVars == <<activeToken, activeSource, tokenSeed, pending, syncLast>>

wsVars == <<wsPhase, wsSeq, wsSegments, wsSent, wsIn, wsResp>>

noticeVars ==
  <<notice, effectPending, phase, displayed, entryDelayRef, enterAnimRef, holdRef,
    exitAnimRef, elapsed, visibleFor, clearedFor, noticeAge, enteredFrom,
    morphedFrom>>

fnVars == <<fnCall>>

saveVars ==
  <<status, statusRef, autoSaveTimerRef, autoSaveArmed, hasLoadedConfigRef,
    configLoadEpochRef, lastSeenConfigEpochRef, saves, saveLast,
    hotConfig, lastAppliedConfigHashRef, applies, applyLast>>

listenVars == <<mounts, subscribed, listenLast>>

vars ==
  <<sessVars, coordVars, syncVars, wsVars, noticeVars, fnVars, saveVars, listenVars>>

\* what the steps of each component leave unchanged
notSess == <<saveVars, listenVars, coordVars, syncVars, wsVars, noticeVars, fnVars>>
notCoord == <<saveVars, listenVars, sessVars, syncVars, wsVars, noticeVars, fnVars>>
notSync == <<saveVars, listenVars, sessVars, coordVars, wsVars, noticeVars, fnVars>>
notWs == <<saveVars, listenVars, sessVars, coordVars, syncVars, noticeVars, fnVars>>
notNotice == <<saveVars, listenVars, sessVars, coordVars, syncVars, wsVars, fnVars>>
notFn == <<sessVars, coordVars, syncVars, wsVars, noticeVars, saveVars, listenVars>>
notSave == <<sessVars, coordVars, syncVars, wsVars, noticeVars, fnVars, listenVars>>
notListen == <<sessVars, coordVars, syncVars, wsVars, noticeVars, fnVars, saveVars>>

States == {"Idle", "Recording", "Locked", "Transcribing"}

Ev(n) == [name |-> n, payload |-> ""]

Cmd(by, cmd) == [by |-> by, cmd |-> cmd]
NoCmd == Cmd("none", "none")

(* ------------------------------------------------------------------ *)
(* Backend state machine                                                *)
(* ------------------------------------------------------------------ *)

\* the ghost-key condition: the machine records the key as held (momentary
\* Recording) while the key is physically up
Ghost == state = "Recording" /\ ~physDown

\* room for n more events in flight
Room(n) == Len(evq) + n <= MaxQueue

Emit(evs) == evq' = evq \o evs

\* the history clocks follow the backend state on every untimed step
Clocks ==
  /\ transElapsed' = IF state' = "Transcribing" THEN transElapsed ELSE 0
  /\ lockedFor' = IF state' = "Locked" THEN lockedFor ELSE 0
  /\ ghostFor' = IF state' = "Recording" /\ ~physDown' THEN ghostFor ELSE 0

\* mutant: the guard around session creation is missing
CanStartSessionAlways == TRUE

\* the mutual-exclusion guard around session creation
CanStartSession == state = "Idle"

\* start_capture: a new session, the capture device opened
StartSession ==
  /\ state' = "Recording"
  /\ capture' = capture + 1
  /\ active' = active + 1
  /\ Emit(<<Ev("recording_started")>>)

\* stop_and_transcribe / finish: capture stops, the audio goes to the coordinator
StopAndTranscribe ==
  /\ state' = "Transcribing"
  /\ capture' = 0
  /\ UNCHANGED active
  /\ Emit(<<Ev("recording_stopped"), Ev("transcribing")>>)

\* the session ends: back to Idle with capture stopped, one event emitted
EndSession(ev) ==
  /\ state' = "Idle"
  /\ capture' = 0
  /\ active' = 0
  /\ Emit(<<ev>>)

EnterLocked ==
  /\ state' = "Locked"
  /\ UNCHANGED <<capture, active>>
  /\ Emit(<<Ev("recording_locked")>>)

\* whether the backend accepts a command in its current state
CmdAccepted(cmd) ==
  CASE cmd = "start_capture" -> CanStartSession
    [] cmd = "stop_and_transcribe" -> state = "Recording"
    [] cmd = "finish_locked_recording" -> state = "Locked"
    [] cmd = "cancel_locked_recording" -> state = "Locked"
    [] cmd = "cancel_transcription" -> state = "Transcribing"
    [] OTHER -> FALSE

\* what an accepted command does
CmdEffect(cmd) ==
  CASE cmd = "start_capture" -> Room(1) /\ StartSession
    [] cmd = "stop_and_transcribe" -> Room(2) /\ StopAndTranscribe
    [] cmd = "finish_locked_recording" -> Room(2) /\ StopAndTranscribe
    [] OTHER -> Room(1) /\ EndSession(Ev("transcription_cancelled"))

\* the backend executes a command; a command that does not apply in the
\* current state is ignored (rejected) and changes nothing
BackendCmd(by, cmd) ==
  /\ IF CmdAccepted(cmd)
       THEN CmdEffect(cmd) /\ lastOk' = TRUE
       ELSE UNCHANGED <<state, capture, active, queueVars>> /\ lastOk' = FALSE
  /\ lastCmd' = Cmd(by, cmd)

\* a press of the dictation hotkey: start_capture
HotkeyPress ==
  /\ ~physDown
  /\ physDown' = TRUE
  /\ BackendCmd("hotkey", "start_capture")
  /\ Clocks
  /\ UNCHANGED <<wdElapsed, ovVars, mainVars>>
  /\ UNCHANGED notSess

\* a release edge of the dictation hotkey that the hook observes:
\* stop_and_transcribe
HotkeyRelease ==
  /\ physDown
  /\ physDown' = FALSE
  /\ BackendCmd("hotkey", "stop_and_transcribe")
  /\ Clocks
  /\ UNCHANGED <<wdElapsed, ovVars, mainVars>>
  /\ UNCHANGED notSess

\* the key goes up and the release edge is lost (e.g. focus loss)
MissedRelease ==
  /\ physDown
  /\ physDown' = FALSE
  /\ UNCHANGED <<state, capture, active, queueVars>>
  /\ Clocks
  /\ lastCmd' = NoCmd /\ lastOk' = TRUE
  /\ UNCHANGED <<wdElapsed, ovVars, mainVars>>
  /\ UNCHANGED notSess

\* a press of the dedicated toggle (release-mode) key
TogglePress ==
  /\ CASE state = "Recording" -> Room(1) /\ EnterLocked
       [] state = "Locked" -> Room(2) /\ StopAndTranscribe
       [] OTHER -> UNCHANGED <<state, capture, active, queueVars>>
  /\ UNCHANGED physDown
  /\ Clocks
  /\ lastCmd' = NoCmd /\ lastOk' = TRUE
  /\ UNCHANGED <<wdElapsed, ovVars, mainVars>>
  /\ UNCHANGED notSess

\* a mid-session capture failure aborts the session
DeviceError ==
  /\ state \in {"Recording", "Locked"}
  /\ Room(1)
  /\ EndSession(Ev("error"))
  /\ UNCHANGED physDown
  /\ Clocks
  /\ lastCmd' = NoCmd /\ lastOk' = TRUE
  /\ UNCHANGED <<wdElapsed, ovVars, mainVars>>
  /\ UNCHANGED notSess

\* the coordinator returns: a result, or the aggregate failure
TranscriptionDone ==
  /\ state = "Transcribing"
  /\ Room(1)
  /\ \E ev \in {"transcription_complete", "error"} : EndSession(Ev(ev))
  /\ UNCHANGED physDown
  /\ Clocks
  /\ lastCmd' = NoCmd /\ lastOk' = TRUE
  /\ UNCHANGED <<wdElapsed, ovVars, mainVars>>
  /\ UNCHANGED notSess

\* mutant: the watchdog reports the ghost key and leaves the session running
WatchdogRecoverReportOnly ==
  /\ UNCHANGED <<state, capture, active>>
  /\ Emit(<<Ev("error")>>)

\* what the watchdog does when it finds the ghost-key condition
WatchdogRecover == EndSession(Ev("error"))

\* the periodic watchdog: every WATCHDOG_INTERVAL_MS
Watchdog ==
  /\ wdElapsed >= WatchdogTicks
  /\ wdElapsed' = 0
  /\ IF Ghost
       THEN Room(1) /\ WatchdogRecover /\ lastCmd' = Cmd("watchdog", "force_idle")
       ELSE UNCHANGED <<state, capture, active, queueVars>> /\ lastCmd' = NoCmd
  /\ lastOk' = TRUE
  /\ UNCHANGED physDown
  /\ Clocks
  /\ UNCHANGED <<ovVars, mainVars>>
  /\ UNCHANGED notSess

(* ------------------------------------------------------------------ *)
(* Overlay window                                                       *)
(* ------------------------------------------------------------------ *)

Ov(s, l, b) == [status |-> s, isLocked |-> l, isSubmitting |-> b]

\* mutant: the transcription_complete handler forgets setIsLocked(false)
OvHandleKeepsLock(ev) ==
  CASE ev.name = "recording_started" -> Ov("recording", FALSE, FALSE)
    [] ev.name = "recording_locked" -> Ov(ovStatus, TRUE, FALSE)
    [] ev.name = "recording_stopped" -> Ov("transcribing", isLocked, isSubmitting)
    [] ev.name = "transcribing" -> Ov("transcribing", isLocked, isSubmitting)
    [] ev.name = "transcription_complete" -> Ov("recording", isLocked, FALSE)
    [] ev.name = "error" -> Ov("recording", FALSE, FALSE)
    [] ev.name = "transcription_cancelled" -> Ov("recording", FALSE, FALSE)
    [] OTHER -> Ov(ovStatus, isLocked, isSubmitting)

\* the overlay's event handlers: the React state after the event
OvHandle(ev) ==
  CASE ev.name = "recording_started" -> Ov("recording", FALSE, FALSE)
    [] ev.name = "recording_locked" -> Ov(ovStatus, TRUE, FALSE)
    [] ev.name = "recording_stopped" -> Ov("transcribing", isLocked, isSubmitting)
    [] ev.name = "transcribing" -> Ov("transcribing", isLocked, isSubmitting)
    [] ev.name = "transcription_complete" -> Ov("recording", FALSE, FALSE)
    [] ev.name = "error" -> Ov("recording", FALSE, FALSE)
    [] ev.name = "transcription_cancelled" -> Ov("recording", FALSE, FALSE)
    [] OTHER -> Ov(ovStatus, isLocked, isSubmitting)

\* useEffect([status]): the 15 s transcribing timeout
TranscribingEffect(new) ==
  IF new.status = ovStatus THEN transTimer
  ELSE IF new.status = "transcribing" THEN 0 ELSE TimerOff

\* the condition under which the 60 s lock timeout is set
LockTimerWanted(new) == new.isLocked /\ ~new.isSubmitting

\* useEffect([isLocked, isSubmitting]): the 60 s lock timeout
LockEffect(new) ==
  IF new.isLocked = isLocked /\ new.isSubmitting = isSubmitting THEN lockTimer
  ELSE IF LockTimerWanted(new) THEN 0 ELSE TimerOff

\* commit a new React state and re-run the effects whose dependencies changed
OvCommit(new) ==
  /\ ovStatus' = new.status
  /\ isLocked' = new.isLocked
  /\ isSubmitting' = new.isSubmitting
  /\ transTimer' = TranscribingEffect(new)
  /\ lockTimer' = LockEffect(new)

\* mutant: the timeout submits the recording instead of cancelling it
LockTimeoutCommandFinish == "finish_locked_recording"

\* the 60 s timeout fires: setIsSubmitting(true); invoke cancel_locked_recording
LockTimeoutCommand == "cancel_locked_recording"

OverlayLockTimeout ==
  /\ lockTimer # TimerOff
  /\ lockTimer >= LockTimeoutTicks
  /\ BackendCmd("lock_timeout", LockTimeoutCommand)
  /\ isSubmitting' = TRUE
  /\ lockTimer' = TimerOff
  /\ UNCHANGED <<ovStatus, isLocked, transTimer>>
  /\ UNCHANGED physDown
  /\ Clocks
  /\ UNCHANGED <<wdElapsed, mainVars>>
  /\ UNCHANGED notSess

\* the 15 s timeout fires: invoke hide_overlay, then reset the React state
OverlayTranscribingTimeout ==
  /\ transTimer # TimerOff
  /\ transTimer >= TranscribingTimeoutTicks
  /\ \E ok \in BOOLEAN :
       /\ lastOk' = ok
       /\ IF ok
            THEN /\ ovStatus' = "recording"
                 /\ isLocked' = FALSE
                 /\ isSubmitting' = FALSE
                 /\ lockTimer' = TimerOff
            ELSE UNCHANGED <<ovStatus, isLocked, isSubmitting, lockTimer>>
  /\ transTimer' = TimerOff
  /\ lastCmd' = Cmd("transcribing_timeout", "hide_overlay")
  /\ UNCHANGED <<backVars, timeVars, queueVars, mainVars>>
  /\ UNCHANGED notSess

\* the locked controls are rendered and enabled
LockedControlsEnabled == ovStatus = "recording" /\ isLocked /\ ~isSubmitting

\* handleFinish / handleCancel: setIsSubmitting(true), invoke, and on failure
\* setIsSubmitting(false), which sets the lock timeout anew
OverlayClick(cmd) ==
  /\ LockedControlsEnabled
  /\ BackendCmd("overlay_click", cmd)
  /\ isSubmitting' = lastOk'
  /\ lockTimer' = IF lastOk' THEN TimerOff ELSE 0
  /\ UNCHANGED <<ovStatus, isLocked, transTimer>>
  /\ UNCHANGED physDown
  /\ Clocks
  /\ UNCHANGED <<wdElapsed, mainVars>>
  /\ UNCHANGED notSess

OverlayFinish == OverlayClick("finish_locked_recording")

OverlayCancel == OverlayClick("cancel_locked_recording")

(* ------------------------------------------------------------------ *)
(* Main window                                                          *)
(* ------------------------------------------------------------------ *)

\* mutant: the error handler forgets setStatus("running")
MainHandleErrorKeepsStatus(ev) ==
  CASE ev.name = "recording_started" -> "recording"
    [] ev.name = "recording_stopped" -> "transcribing"
    [] ev.name = "transcribing" -> "transcribing"
    [] ev.name = "post_processing" /\ ev.payload = "polishing" -> "polishing"
    [] ev.name = "post_processing" /\ ev.payload = "assistant" -> "assistant_processing"
    [] ev.name = "transcription_complete" -> "running"
    [] ev.name = "transcription_cancelled" -> "running"
    [] OTHER -> mainStatus

\* the main window's event handlers: the status after the event (the backend
\* model emits no post_processing: LLM post-processing is outside the core)
MainHandle(ev) ==
  CASE ev.name = "recording_started" -> "recording"
    [] ev.name = "recording_stopped" -> "transcribing"
    [] ev.name = "transcribing" -> "transcribing"
    [] ev.name = "post_processing" /\ ev.payload = "polishing" -> "polishing"
    [] ev.name = "post_processing" /\ ev.payload = "assistant" -> "assistant_processing"
    [] ev.name = "transcription_complete" -> "running"
    [] ev.name = "error" -> "running"
    [] ev.name = "transcription_cancelled" -> "running"
    [] OTHER -> mainStatus

\* the backend's emit reaches every window: both windows handle the event
Deliver ==
  /\ evq # <<>>
  /\ OvCommit(OvHandle(Head(evq)))
  /\ mainStatus' = MainHandle(Head(evq))
  /\ evq' = Tail(evq)
  /\ lastCmd' = NoCmd /\ lastOk' = TRUE
  /\ UNCHANGED <<backVars, timeVars>>
  /\ UNCHANGED notSess

\* handleCancelTranscription: invoke cancel_transcription
MainBusy == {"transcribing", "polishing", "assistant_processing"}

MainCancelTranscription ==
  /\ mainStatus \in MainBusy
  /\ BackendCmd("main_window", "cancel_transcription")
  /\ UNCHANGED <<mainStatus, physDown, ovVars>>
  /\ Clocks
  /\ UNCHANGED wdElapsed
  /\ UNCHANGED notSess

(* ------------------------------------------------------------------ *)
(* Time                                                                 *)
(* ------------------------------------------------------------------ *)

Due(timer, limit) == timer # TimerOff /\ timer >= limit

\* the coordinator's deadline: the sum of the timeouts and retries
TranscriptionOverdue == state = "Transcribing" /\ transElapsed >= TranscribeBoundTicks

Adv(timer) == IF timer = TimerOff THEN TimerOff ELSE timer + 1

Capped(n, limit) == IF n > limit THEN n ELSE n + 1

Tick ==
  /\ evq = <<>>
  /\ wdElapsed < WatchdogTicks
  /\ ~Due(lockTimer, LockTimeoutTicks)
  /\ ~Due(transTimer, TranscribingTimeoutTicks)
  /\ ~TranscriptionOverdue
  /\ wdElapsed' = wdElapsed + 1
  /\ lockTimer' = Adv(lockTimer)
  /\ transTimer' = Adv(transTimer)
  /\ transElapsed' = IF state = "Transcribing" THEN transElapsed + 1 ELSE 0
  /\ lockedFor' = IF state = "Locked" THEN Capped(lockedFor, LockTimeoutTicks) ELSE 0
  /\ ghostFor' = IF Ghost THEN Capped(ghostFor, WatchdogTicks) ELSE 0
  /\ lastCmd' = NoCmd /\ lastOk' = TRUE
  /\ UNCHANGED <<backVars, queueVars, ovStatus, isLocked, isSubmitting, mainVars>>
  /\ UNCHANGED notSess

(* ------------------------------------------------------------------ *)
(* Race / fallback coordinator                                          *)
(* ------------------------------------------------------------------ *)

\* the configured providers, in priority order (lower index first)
Providers == 1 .. NumProviders

Policies == {"race", "fallback"}

\* the typed errors of a provider client
Retryable == {"Timeout", "NetworkError"}
NotRetried == {"ProtocolError", "AuthError"}
Errors == Retryable \cup NotRetried

Attempt(st, n, e) == [status |-> st, tries |-> n, err |-> e]

NoResult == [session |-> 0, provider |-> 0]
Result(s, p) == [session |-> s, provider |-> p]
Results == {Result(s, p) : s \in 1 .. MaxCoordSessions, p \in Providers}

CLast(op, s, p) == [op |-> op, session |-> s, provider |-> p]

\* no error named for any provider
NoErrors == [p \in Providers |-> "none"]

InFlight == {"running", "completed"}

\* the providers whose attempt starts when the coordinator starts
StartsAtOnce(policy, p) == policy = "race" \/ p = 1

\* mutant: a transient failure is escalated at once, without a retry
EscalatesFirstFailure(p, err) == TRUE

\* mutant: every error is retried while the retry budget lasts
EscalatesBudgetOnly(p, err) == att[p].tries >= MaxTries

\* the attempt of provider p is reported failed to the coordinator: the error
\* is not retried, or the retry budget is used up
Escalates(p, err) == err \in NotRetried \/ att[p].tries >= MaxTries

\* mutant: the attempts that lost keep running
LoserStatusKeepsRunning(st) == st

\* the winner commits: every other attempt still in flight is cancelled
LoserStatus(st) == IF st \in InFlight THEN "cancelled" ELSE st

\* mutant: a result is applied without the identity check
WriteAcceptedUnchecked(w) == TRUE

\* the identity check before a result is applied: the write is of the current
\* session, of an attempt that completed and was not cancelled, and the slot
\* is still empty
WriteAccepted(w) ==
  /\ w.session = cSession
  /\ cPhase = "running"
  /\ slot = NoResult
  /\ att[w.provider].status = "completed"

\* run(session, providers, policy)
CoordStart(policy) ==
  /\ cPhase = "idle"
  /\ cSession < MaxCoordSessions
  /\ \A w \in writes : w.session = cSession
  /\ Cardinality(writes) <= MaxStale
  /\ cPolicy' = policy
  /\ cPhase' = "running"
  /\ cSession' = cSession + 1
  /\ att' = [p \in Providers |->
               IF StartsAtOnce(policy, p) THEN Attempt("running", 1, "none")
               ELSE Attempt("pending", 0, "none")]
  /\ slot' = NoResult
  /\ cOutcome' = "none"
  /\ cFailure' = NoErrors
  /\ lastErr' = NoErrors
  /\ cLast' = CLast("start", cSession + 1, 0)
  /\ UNCHANGED writes
  /\ UNCHANGED notCoord

\* the attempts after provider p was reported failed with err: under fallback
\* the next provider in order is started
AfterFailure(p, err) ==
  [q \in Providers |->
     IF q = p THEN Attempt("failed", att[p].tries, err)
     ELSE IF cPolicy = "fallback" /\ q = p + 1 THEN Attempt("running", 1, "none")
     ELSE att[q]]

\* mutant: a failure is returned as soon as one provider failed
SomeProviderFailed(a) == \E q \in Providers : a[q].status = "failed"

\* every configured provider's attempt was reported failed
EveryProviderFailed(a) == \A q \in Providers : a[q].status = "failed"

\* the aggregate failure names, for each provider, the error its attempt ended with
AggregateFailure(a) == [q \in Providers |-> a[q].err]

\* a try of provider p fails with err
TryFails(p, err) ==
  /\ cPhase = "running"
  /\ att[p].status = "running"
  /\ IF Escalates(p, err)
       THEN /\ att' = AfterFailure(p, err)
            /\ IF EveryProviderFailed(AfterFailure(p, err))
                 THEN /\ cPhase' = "done"
                      /\ cOutcome' = "failure"
                      /\ cFailure' = AggregateFailure(AfterFailure(p, err))
                 ELSE UNCHANGED <<cPhase, cOutcome, cFailure>>
       ELSE /\ att' = [att EXCEPT ![p] = Attempt("running", att[p].tries + 1, err)]
            /\ UNCHANGED <<cPhase, cOutcome, cFailure>>
  /\ lastErr' = [lastErr EXCEPT ![p] = err]
  /\ cLast' = CLast("fail", cSession, p)
  /\ UNCHANGED <<cPolicy, cSession, slot, writes>>
  /\ UNCHANGED notCoord

\* a try of provider p completes successfully: its result is to be written
TrySucceeds(p) ==
  /\ cPhase = "running"
  /\ att[p].status = "running"
  /\ att' = [att EXCEPT ![p].status = "completed"]
  /\ writes' = writes \cup {Result(cSession, p)}
  /\ cLast' = CLast("succeed", cSession, p)
  /\ UNCHANGED <<cPolicy, cPhase, cSession, slot, cOutcome, cFailure, lastErr>>
  /\ UNCHANGED notCoord

\* the response of a cancelled attempt arrives all the same
LateResponse(p) ==
  /\ att[p].status = "cancelled"
  /\ Result(cSession, p) \notin writes
  /\ writes' = writes \cup {Result(cSession, p)}
  /\ cLast' = CLast("late", cSession, p)
  /\ UNCHANGED <<cPolicy, cPhase, cSession, att, slot, cOutcome, cFailure, lastErr>>
  /\ UNCHANGED notCoord

\* the results that completed in the current scheduling tick
Completed == {w \in writes : WriteAccepted(w)}

\* mutant: results of one scheduling tick are applied in any order
GoesFirstAny(w) == TRUE

\* of the results of one scheduling tick the higher-priority provider's goes first
GoesFirst(w) == \A v \in Completed : w.provider <= v.provider

\* the coordinator applies a result: the first writer commits and the other
\* attempts are cancelled; any other write is dropped
ApplyResult(w) ==
  /\ w \in writes
  /\ w \in Completed => GoesFirst(w)
  /\ writes' = writes \ {w}
  /\ IF WriteAccepted(w)
       THEN /\ slot' = w
            /\ att' = [q \in Providers |->
                         IF q = w.provider THEN [att[q] EXCEPT !.status = "won"]
                         ELSE [att[q] EXCEPT !.status = LoserStatus(att[q].status)]]
            /\ cPhase' = "done"
            /\ cOutcome' = "success"
            /\ cLast' = CLast("commit", w.session, w.provider)
       ELSE /\ UNCHANGED <<slot, att, cPhase, cOutcome>>
            /\ cLast' = CLast("drop", w.session, w.provider)
  /\ UNCHANGED <<cPolicy, cSession, cFailure, lastErr>>
  /\ UNCHANGED notCoord

\* cancel_transcription: every attempt in flight is cancelled
CoordCancel ==
  /\ cPhase = "running"
  /\ att' = [q \in Providers |-> [att[q] EXCEPT !.status = LoserStatus(att[q].status)]]
  /\ cPhase' = "done"
  /\ cOutcome' = "cancelled"
  /\ cLast' = CLast("cancel", cSession, 0)
  /\ UNCHANGED <<cPolicy, cSession, slot, writes, cFailure, lastErr>>
  /\ UNCHANGED notCoord

\* the result is handed to the state machine
CoordReturn ==
  /\ cPhase = "done"
  /\ cPhase' = "idle"
  /\ cLast' = CLast("return", cSession, 0)
  /\ UNCHANGED <<cPolicy, cSession, att, slot, writes, cOutcome, cFailure, lastErr>>
  /\ UNCHANGED notCoord

CoordInit ==
  /\ cPolicy = "race"
  /\ cPhase = "idle"
  /\ cSession = 0
  /\ att = [p \in Providers |-> Attempt("pending", 0, "none")]
  /\ slot = NoResult
  /\ writes = {}
  /\ cOutcome = "none"
  /\ cFailure = NoErrors
  /\ lastErr = NoErrors
  /\ cLast = CLast("init", 0, 0)

(* ------------------------------------------------------------------ *)
(* Configuration sync-window controller                                 *)
(* ------------------------------------------------------------------ *)

\* number | null and ConfigSyncWindowSource | null
Null == <<>>
Some(x) == <<x>>

Sources == {"initial_load", "external_config_updated"}

\* the tokens a caller may pass to complete
Tokens == 0 .. MaxBegins + 1

SyncCall(op, tokens, ret) == [op |-> op, tokens |-> tokens, ret |-> ret]

\* mutant: complete ends the window whatever the token
CompleteAcceptsAny(token) == activeToken # Null

\* complete(token): whether the token is the active one (the returned value)
CompleteAccepts(token) == activeToken = Some(token)

\* begin(source)
SyncBegin(source) ==
  /\ tokenSeed < MaxBegins
  /\ tokenSeed' = tokenSeed + 1
  /\ activeToken' = Some(tokenSeed + 1)
  /\ activeSource' = Some(source)
  /\ syncLast' = SyncCall("begin", {tokenSeed + 1}, TRUE)
  /\ UNCHANGED pending
  /\ UNCHANGED notSync

\* getSnapshot / snapshot()
getSnapshot ==
  LET isSuppressed == activeToken # Null
  IN [isSuppressed |-> isSuppressed,
      source |-> activeSource,
      isExternalSyncing |->
        isSuppressed /\ activeSource = Some("external_config_updated")]

\* mutant: an accepted complete leaves the source set
AfterCompleteKeepsSource(tokens) ==
  /\ IF \E t \in tokens : CompleteAccepts(t)
       THEN activeToken' = Null /\ UNCHANGED activeSource
       ELSE UNCHANGED <<activeToken, activeSource>>
  /\ UNCHANGED tokenSeed

\* the controller's state after complete is called with each of the tokens
AfterComplete(tokens) ==
  /\ IF \E t \in tokens : CompleteAccepts(t)
       THEN activeToken' = Null /\ activeSource' = Null
       ELSE UNCHANGED <<activeToken, activeSource>>
  /\ UNCHANGED tokenSeed

\* complete(token), called directly
SyncComplete(token) ==
  /\ AfterComplete({token})
  /\ syncLast' = SyncCall("complete", {token}, CompleteAccepts(token))
  /\ UNCHANGED pending
  /\ UNCHANGED notSync

Release(token, stage) == [token |-> token, stage |-> stage]

\* scheduleSyncWindowRelease({token, complete}): a microtask is queued
SyncSchedule(token) ==
  /\ token \in 1 .. tokenSeed
  /\ \A r \in pending : r.token # token
  /\ pending' = pending \cup {Release(token, "microtask")}
  /\ syncLast' = SyncCall("schedule", {token}, TRUE)
  /\ UNCHANGED <<activeToken, activeSource, tokenSeed>>
  /\ UNCHANGED notSync

\* mutant: the microtask's callback is the one that calls complete, so that a
\* single animation frame is waited for
MicrotaskRequestsLastFrame == "frame2"

\* the callback the microtask hands to runAnimationFrame: the one that requests
\* a second animation frame
MicrotaskRequests == "frame1"

\* the microtask runs: the first animation frame is requested
SyncMicrotask(token) ==
  /\ Release(token, "microtask") \in pending
  /\ pending' = (pending \ {Release(token, "microtask")})
                   \cup {Release(token, MicrotaskRequests)}
  /\ syncLast' = SyncCall("microtask", {token}, TRUE)
  /\ UNCHANGED <<activeToken, activeSource, tokenSeed>>
  /\ UNCHANGED notSync

\* an animation frame: the callbacks requested before it run; a first-frame
\* callback requests the second frame, a second-frame callback calls complete
SyncFrame ==
  /\ \E r \in pending : r.stage # "microtask"
  /\ LET done == {r.token : r \in {x \in pending : x.stage = "frame2"}}
     IN /\ AfterComplete(done)
        /\ pending' = {r \in pending : r.stage = "microtask"}
                        \cup {Release(r.token, "frame2") :
                                r \in {x \in pending : x.stage = "frame1"}}
        /\ syncLast' = SyncCall("frame", done, \E t \in done : CompleteAccepts(t))
  /\ UNCHANGED notSync

SyncInit ==
  /\ activeToken = Null
  /\ activeSource = Null
  /\ tokenSeed = 0
  /\ pending = {}
  /\ syncLast = SyncCall("init", {}, TRUE)

(* ------------------------------------------------------------------ *)
(* Streaming ASR binary protocol: constants, header, request builder    *)
(* ------------------------------------------------------------------ *)

\* ProtocolVersion / MessageType / MessageTypeSpecificFlags /
\* SerializationType / CompressionType
V1 == 1
CLIENT_FULL_REQUEST == 1
CLIENT_AUDIO_ONLY_REQUEST == 2
SERVER_FULL_RESPONSE == 9
SERVER_ERROR_RESPONSE == 15
NO_SEQUENCE == 0
POS_SEQUENCE == 1
NEG_SEQUENCE == 2
NEG_WITH_SEQUENCE == 3
NO_SERIALIZATION == 0
JSON == 1
GZIP == 1

\* bytes are 0 .. 255; data[n:] and data[:n] of Python
Drop(data, n) == SubSeq(data, n + 1, Len(data))
Take(data, n) == SubSeq(data, 1, IF n < Len(data) THEN n ELSE Len(data))

\* struct.pack('>I', n) and struct.pack('>i', n): big-endian, 32 bits
\* (the bytes of the two's complement: \div rounds down)
Pack32(n) ==
  <<(n \div 16777216) % 256, (n \div 65536) % 256, (n \div 256) % 256, n % 256>>

\* struct.unpack('>I', data) on exactly 4 bytes (the sizes of the model stay
\* below 2^31)
UnpackU(data) == data[1] * 16777216 + data[2] * 65536 + data[3] * 256 + data[4]

\* struct.unpack('>i', data) on exactly 4 bytes: two's complement
UnpackI(data) ==
  (IF data[1] >= 128 THEN data[1] - 256 ELSE data[1]) * 16777216
    + data[2] * 65536 + data[3] * 256 + data[4]

\* gzip framing: the magic bytes 1f 8b, the stored body, and a trailer that
\* carries the length of the body
GzipMagic == <<31, 139>>
gzip_compress(data) == GzipMagic \o data \o <<Len(data) % 256>>

IsGzip(data) ==
  /\ Len(data) >= 3
  /\ Take(data, 2) = GzipMagic
  /\ data[Len(data)] = (Len(data) - 3) % 256

\* gzip.decompress of well-formed data (it raises on any other)
gzip_decompress(data) == SubSeq(data, 3, Len(data) - 1)

\* JSON texts over the bytes of the model: a number written with the digit
\* "1", the empty object "{}"; json.loads raises on anything else
IsJson(data) ==
  \/ data # <<>> /\ \A i \in 1 .. Len(data) : data[i] = 49
  \/ data = <<123, 125>>

\* AsrRequestHeader.to_bytes
to_bytes(message_type, flags, serialization_type, compression_type) ==
  <<V1 * 16 + 1, message_type * 16 + flags,
    serialization_type * 16 + compression_type, 0>>

\* the JSON text of the full client request's parameters
FullRequestJson == <<123, 125>>

\* RequestBuilder.new_full_client_request(seq)
new_full_client_request(seq) ==
  to_bytes(CLIENT_FULL_REQUEST, POS_SEQUENCE, JSON, GZIP)
    \o Pack32(seq)
    \o Pack32(Len(gzip_compress(FullRequestJson)))
    \o gzip_compress(FullRequestJson)

\* mutant: the last packet keeps the positive sequence flag and number
new_audio_only_request_no_terminal(seq, segment, is_last) ==
  to_bytes(CLIENT_AUDIO_ONLY_REQUEST, POS_SEQUENCE, JSON, GZIP)
    \o Pack32(seq)
    \o Pack32(Len(gzip_compress(segment)))
    \o gzip_compress(segment)

\* RequestBuilder.new_audio_only_request(seq, segment, is_last)
new_audio_only_request(seq, segment, is_last) ==
  to_bytes(CLIENT_AUDIO_ONLY_REQUEST,
           IF is_last THEN NEG_WITH_SEQUENCE ELSE POS_SEQUENCE, JSON, GZIP)
    \o Pack32(IF is_last THEN 0 - seq ELSE seq)
    \o Pack32(Len(gzip_compress(segment)))
    \o gzip_compress(segment)

(* ------------------------------------------------------------------ *)
(* Streaming ASR binary protocol: response parser                       *)
(* ------------------------------------------------------------------ *)

\* AsrResponse; raised names the exception that left parse_response, if any
AsrResponse(code, event, last, seq, size, msg) ==
  [code |-> code, event |-> event, is_last_package |-> last,
   payload_sequence |-> seq, payload_size |-> size, payload_msg |-> msg,
   raised |-> "none"]

Raised(exception) ==
  [code |-> 0, event |-> 0, is_last_package |-> FALSE,
   payload_sequence |-> 0, payload_size |-> 0, payload_msg |-> <<>>,
   raised |-> exception]

\* the bytes parse_response reads between the flag fields and the payload:
\* the payload size of a full server response, the code and the payload size
\* of an error response, nothing for any other message type
SizeFields(message_type) ==
  CASE message_type = SERVER_FULL_RESPONSE -> 4
    [] message_type = SERVER_ERROR_RESPONSE -> 8
    [] OTHER -> 0

\* ResponseParser.parse_response(msg)
parse_response(msg) ==
  IF Len(msg) < 3 THEN Raised("IndexError")
  ELSE
    LET header_size == msg[1] % 16
        message_type == msg[2] \div 16
        message_type_specific_flags == msg[2] % 16
        serialization_method == msg[3] \div 16
        message_compression == msg[3] % 16
        hasSequence == message_type_specific_flags % 2 = 1
        isLast == (message_type_specific_flags \div 2) % 2 = 1
        hasEvent == (message_type_specific_flags \div 4) % 2 = 1
        p0 == Drop(msg, header_size * 4)
        p1 == IF hasSequence THEN Drop(p0, 4) ELSE p0
        p2 == IF hasEvent THEN Drop(p1, 4) ELSE p1
        payload == Drop(p2, SizeFields(message_type))
        short == \/ hasSequence /\ Len(p0) < 4
                 \/ hasEvent /\ Len(p1) < 4
                 \/ Len(p2) < SizeFields(message_type)
        response ==
          AsrResponse(
            IF message_type = SERVER_ERROR_RESPONSE THEN UnpackI(Take(p2, 4)) ELSE 0,
            IF hasEvent THEN UnpackI(Take(p1, 4)) ELSE 0,
            isLast,
            IF hasSequence THEN UnpackI(Take(p0, 4)) ELSE 0,
            CASE message_type = SERVER_FULL_RESPONSE -> UnpackU(Take(p2, 4))
              [] message_type = SERVER_ERROR_RESPONSE -> UnpackU(SubSeq(p2, 5, 8))
              [] OTHER -> 0,
            <<>>)
        plain == IF message_compression = GZIP THEN gzip_decompress(payload) ELSE payload
    IN IF short THEN Raised("struct.error")
       ELSE IF payload = <<>> THEN response
       ELSE IF message_compression = GZIP /\ ~IsGzip(payload) THEN response
       ELSE IF serialization_method = JSON /\ IsJson(plain)
              THEN [response EXCEPT !.payload_msg = <<plain>>]
       ELSE response

(* ------------------------------------------------------------------ *)
(* Streaming ASR client (AsrWsClient)                                   *)
(* ------------------------------------------------------------------ *)

\* the bytes audio data is made of in the model
AudioBytes == {0, 49}

RECURSIVE SeqsUpTo(_, _)
SeqsUpTo(S, n) ==
  IF n = 0 THEN {<<>>}
  ELSE SeqsUpTo(S, n - 1) \cup {Append(s, b) : s \in SeqsUpTo(S, n - 1), b \in S}

\* the audio contents and the segment sizes execute is called with
AudioContents == SeqsUpTo(AudioBytes, MaxAudioLen)
SegmentSizes == 0 .. MaxSegmentSize

\* AsrWsClient.split_audio(data, segment_size)
RECURSIVE split_audio(_, _)
split_audio(data, segment_size) ==
  IF segment_size <= 0 \/ data = <<>> THEN <<>>
  ELSE <<Take(data, segment_size)>> \o split_audio(Drop(data, segment_size), segment_size)

\* a server message: header, optional sequence number, payload size, payload
ServerFrame(message_type, flags, serialization, compression, payload) ==
  to_bytes(message_type, flags, serialization, compression)
    \o (IF flags % 2 = 1 THEN Pack32(1) ELSE <<>>)
    \o (IF message_type = SERVER_ERROR_RESPONSE THEN Pack32(45000001) ELSE <<>>)
    \o Pack32(Len(payload))
    \o payload

\* the payloads the server of the model sends: a JSON text, plain and
\* compressed, and bytes that are neither
ServerPayloads == {<<123, 125>>, gzip_compress(<<123, 125>>), <<0>>}

\* the compression and serialization nibbles of the model: the defined
\* values and one undefined value
CompressionFlags == {0, GZIP, 2}
SerializationFlags == {NO_SERIALIZATION, JSON}

\* the messages the client may receive: well-formed server frames and
\* truncated ones
ServerMessages ==
  {ServerFrame(t, f, s, c, p) :
     t \in {SERVER_FULL_RESPONSE, SERVER_ERROR_RESPONSE},
     f \in {POS_SEQUENCE, NEG_WITH_SEQUENCE},
     s \in SerializationFlags, c \in CompressionFlags, p \in ServerPayloads}
  \cup {Take(ServerFrame(SERVER_FULL_RESPONSE, POS_SEQUENCE, JSON, GZIP, <<>>), n) :
          n \in {2, 6, 10}}

NoResponse == AsrResponse(0, 0, FALSE, 0, 0, <<>>)

\* execute(file_path): self.seq = 1, the audio is read and split, the
\* connection is made
WsExecute(content, segment_size) ==
  /\ wsPhase = "idle"
  /\ wsSeq' = 1
  /\ wsSegments' = split_audio(content, segment_size)
  /\ wsPhase' = "connected"
  /\ wsSent' = <<>>
  /\ UNCHANGED <<wsIn, wsResp>>
  /\ UNCHANGED notWs

\* send_full_client_request
WsSendFullClientRequest ==
  /\ wsPhase = "connected"
  /\ wsSent' = Append(wsSent, new_full_client_request(wsSeq))
  /\ wsSeq' = wsSeq + 1
  /\ wsPhase' = "streaming"
  /\ UNCHANGED <<wsSegments, wsIn, wsResp>>
  /\ UNCHANGED notWs

\* the number of audio requests sent so far
AudioSent == Len(wsSent) - 1

\* send_messages: one iteration of the loop
WsSendAudio ==
  /\ wsPhase = "streaming"
  /\ AudioSent < Len(wsSegments)
  /\ LET i == AudioSent + 1
         is_last == i = Len(wsSegments)
     IN /\ wsSent' = Append(wsSent,
                            new_audio_only_request(wsSeq, wsSegments[i], is_last))
        /\ wsSeq' = IF is_last THEN wsSeq ELSE wsSeq + 1
  /\ UNCHANGED <<wsPhase, wsSegments, wsIn, wsResp>>
  /\ UNCHANGED notWs

\* recv_messages: a message is parsed; the last package, an error code or an
\* exception ends the stream and cancels the sender
WsReceive(msg) ==
  /\ wsPhase = "streaming"
  /\ wsIn' = msg
  /\ LET response == parse_response(msg)
     IN /\ wsResp' = response
        /\ wsPhase' = IF \/ response.raised # "none"
                         \/ response.is_last_package
                         \/ response.code # 0
                        THEN "closed" ELSE "streaming"
  /\ UNCHANGED <<wsSeq, wsSegments, wsSent>>
  /\ UNCHANGED notWs

\* a sent request is given to the decoder
WsDecodeSent(i) ==
  /\ i \in 1 .. Len(wsSent)
  /\ wsIn' = wsSent[i]
  /\ wsResp' = parse_response(wsSent[i])
  /\ UNCHANGED <<wsPhase, wsSeq, wsSegments, wsSent>>
  /\ UNCHANGED notWs

WsInit ==
  /\ wsPhase = "idle"
  /\ wsSeq = 1
  /\ wsSegments = <<>>
  /\ wsSent = <<>>
  /\ wsIn = <<>>
  /\ wsResp = NoResponse

(* ------------------------------------------------------------------ *)
(* Notice capsule (useNoticeMachine)                                    *)
(*                                                                      *)
(* Time is discrete here too: one tick is the largest interval that     *)
(* divides every timing constant of the hook.  A timer is Null or       *)
(* Some(r), r the ticks left until it is due; a due timer's callback    *)
(* runs before time goes on.  A render stores the notice in noticeRef   *)
(* and the effect of the changed key runs as a later step.              *)
(* ------------------------------------------------------------------ *)

RECURSIVE Gcd(_, _)
Gcd(a, b) == IF b = 0 THEN a ELSE Gcd(b, a % b)

\* milliseconds of one tick
NoticeTickMs ==
  Gcd(ENTRY_DELAY_MS, Gcd(ENTER_ANIM_MS, Gcd(EXIT_ANIM_MS,
      Gcd(MIN_VISIBLE_MS, Gcd(SUCCESS_HOLD_MS, ERROR_HOLD_MS)))))

Ticks(ms) == ms \div NoticeTickMs

Max(a, b) == IF a >= b THEN a ELSE b

NoticeTones == {"info", "success", "warning", "error"}

HOLD_BY_TONE ==
  [tone \in NoticeTones |->
     CASE tone = "info" -> 0
       [] tone = "success" -> SUCCESS_HOLD_MS
       [] tone = "warning" -> SUCCESS_HOLD_MS
       [] tone = "error" -> ERROR_HOLD_MS]

\* GlobalNoticePayload: what the notice key is derived from
Notices == [tone : NoticeTones, message : 1 .. NumMessages]

NoticePhases == {"hidden", "entering", "stable", "exiting"}

\* mutant: the first appearance is displayed without the entry delay
EntryDelayNone == Ticks(0)

\* ticks of the entry delay
EntryDelayTicks == Ticks(ENTRY_DELAY_MS)

\* Date.now() - stableAtRef.current, counted up to the minimum visible time
\* (more makes no difference to Math.max(0, MIN_VISIBLE_MS - elapsed))
ElapsedCap == Ticks(MIN_VISIBLE_MS)

\* the longest hold
HoldCap == Ticks(Max(SUCCESS_HOLD_MS, ERROR_HOLD_MS))

Aged(n, cap) == IF n < cap THEN n + 1 ELSE cap

\* a timer after one more tick
Elapse(timer) == IF timer = Null THEN Null ELSE Some(timer[1] - 1)

TimerDue(timer) == timer = Some(0)

\* const holdTime = Math.max(remainingMinVisible, toneHold), in ticks
HoldTime ==
  LET tone == IF displayed = Null THEN "info" ELSE displayed[1].tone
      toneHold == Ticks(HOLD_BY_TONE[tone])
      remainingMinVisible == Max(0, ElapsedCap - elapsed)
  IN Max(remainingMinVisible, toneHold)

\* mutant: the exit timer is left running when a notice is present
CancelExitKeeps(timer) == timer

\* clearTimeout(exitAnimRef.current); exitAnimRef.current = undefined
CancelExit(timer) == Null

\* the component renders with a changed notice: noticeRef.current = notice,
\* and the effect of the changed noticeKey is to run
NoticeRender(n) ==
  /\ ~effectPending
  /\ n # notice
  /\ notice' = n
  /\ effectPending' = TRUE
  /\ noticeAge' = IF n = Null \/ notice = Null THEN 0 ELSE noticeAge
  /\ clearedFor' = 0
  /\ UNCHANGED <<phase, displayed, entryDelayRef, enterAnimRef, holdRef, exitAnimRef,
                 elapsed, visibleFor, enteredFrom, morphedFrom>>
  /\ UNCHANGED notNotice

\* startExit(): the phase and the exit timer
StartExit ==
  /\ phase' = "exiting"
  /\ exitAnimRef' = Some(Ticks(EXIT_ANIM_MS))

\* mutant: replacing the content starts the enter animation's phase again
AfterMorphReEnters(p) == "entering"

\* already entering or stable: the content is replaced in place and the phase
\* is left as it is
AfterMorph(p) == p

\* the effect, notice present
EffectPresent ==
  /\ holdRef' = Null
  /\ IF phase = "hidden"
       THEN /\ entryDelayRef' = Some(EntryDelayTicks)
            /\ exitAnimRef' = CancelExit(exitAnimRef)
            /\ UNCHANGED <<phase, displayed, enterAnimRef, enteredFrom, morphedFrom>>
       ELSE IF phase = "exiting"
       THEN /\ displayed' = notice
            /\ phase' = "entering"
            /\ enterAnimRef' = Some(Ticks(ENTER_ANIM_MS))
            /\ exitAnimRef' = CancelExit(exitAnimRef)
            /\ enteredFrom' = "exiting"
            /\ morphedFrom' = Null
            /\ UNCHANGED entryDelayRef
       ELSE /\ displayed' = notice
            /\ phase' = AfterMorph(phase)
            /\ exitAnimRef' = CancelExit(exitAnimRef)
            /\ morphedFrom' = IF displayed # notice THEN displayed ELSE morphedFrom
            /\ UNCHANGED <<entryDelayRef, enterAnimRef, enteredFrom>>

\* the effect, notice cleared
EffectCleared ==
  /\ entryDelayRef' = Null
  /\ enterAnimRef' = Null
  /\ IF phase \in {"entering", "stable"}
       THEN /\ IF HoldTime > 0
                 THEN /\ holdRef' = Some(HoldTime)
                      /\ UNCHANGED <<phase, exitAnimRef>>
                 ELSE /\ StartExit
                      /\ UNCHANGED holdRef
            /\ enteredFrom' = IF phase = "entering" THEN "interrupted" ELSE enteredFrom
       ELSE UNCHANGED <<phase, holdRef, exitAnimRef, enteredFrom>>
  /\ UNCHANGED <<displayed, morphedFrom>>

\* useEffect(() => {...}, [noticeKey])
NoticeEffect ==
  /\ effectPending
  /\ effectPending' = FALSE
  /\ IF notice # Null THEN EffectPresent ELSE EffectCleared
  /\ UNCHANGED <<notice, elapsed, visibleFor, clearedFor, noticeAge>>
  /\ UNCHANGED notNotice

\* the entry delay is over
EntryDelayFires ==
  /\ TimerDue(entryDelayRef)
  /\ entryDelayRef' = Null
  /\ IF notice = Null
       THEN UNCHANGED <<phase, displayed, enterAnimRef, visibleFor, enteredFrom,
                        morphedFrom>>
       ELSE /\ displayed' = notice
            /\ phase' = "entering"
            /\ enterAnimRef' = Some(Ticks(ENTER_ANIM_MS))
            /\ visibleFor' = 0
            /\ enteredFrom' = "hidden"
            /\ morphedFrom' = Null
  /\ UNCHANGED <<notice, effectPending, holdRef, exitAnimRef, elapsed, clearedFor, noticeAge>>
  /\ UNCHANGED notNotice

\* the enter animation is over
EnterAnimFires ==
  /\ TimerDue(enterAnimRef)
  /\ enterAnimRef' = Null
  /\ elapsed' = 0
  /\ phase' = "stable"
  /\ UNCHANGED <<notice, effectPending, displayed, entryDelayRef, holdRef, exitAnimRef,
                 visibleFor, clearedFor, noticeAge, enteredFrom, morphedFrom>>
  /\ UNCHANGED notNotice

\* the hold is over
HoldFires ==
  /\ TimerDue(holdRef)
  /\ holdRef' = Null
  /\ IF notice # Null
       THEN UNCHANGED <<phase, exitAnimRef>>
       ELSE StartExit
  /\ UNCHANGED <<notice, effectPending, displayed, entryDelayRef, enterAnimRef,
                 elapsed, visibleFor, clearedFor, noticeAge, enteredFrom, morphedFrom>>
  /\ UNCHANGED notNotice

\* the exit animation is over
ExitAnimFires ==
  /\ TimerDue(exitAnimRef)
  /\ exitAnimRef' = Null
  /\ phase' = "hidden"
  /\ displayed' = Null
  /\ visibleFor' = 0
  /\ morphedFrom' = Null
  /\ UNCHANGED <<notice, effectPending, entryDelayRef, enterAnimRef, holdRef,
                 elapsed, clearedFor, noticeAge, enteredFrom>>
  /\ UNCHANGED notNotice

\* one tick of time passes: no callback is due and no effect is waiting
NoticeTick ==
  /\ ~effectPending
  /\ ~TimerDue(entryDelayRef) /\ ~TimerDue(enterAnimRef) /\ ~TimerDue(holdRef) /\ ~TimerDue(exitAnimRef)
  /\ entryDelayRef' = Elapse(entryDelayRef)
  /\ enterAnimRef' = Elapse(enterAnimRef)
  /\ holdRef' = Elapse(holdRef)
  /\ exitAnimRef' = Elapse(exitAnimRef)
  /\ elapsed' = Aged(elapsed, ElapsedCap)
  /\ visibleFor' = IF phase = "hidden" THEN visibleFor ELSE Aged(visibleFor, ElapsedCap)
  /\ clearedFor' = IF notice = Null /\ phase \in {"entering", "stable"}
                     THEN Aged(clearedFor, HoldCap) ELSE clearedFor
  /\ noticeAge' = IF notice # Null THEN Aged(noticeAge, EntryDelayTicks) ELSE noticeAge
  /\ UNCHANGED <<notice, effectPending, phase, displayed, enteredFrom, morphedFrom>>
  /\ UNCHANGED notNotice

NoticeInit ==
  /\ notice = Null
  /\ effectPending = FALSE
  /\ phase = "hidden"
  /\ displayed = Null
  /\ entryDelayRef = Null
  /\ enterAnimRef = Null
  /\ holdRef = Null
  /\ exitAnimRef = Null
  /\ elapsed = ElapsedCap
  /\ visibleFor = 0
  /\ clearedFor = 0
  /\ noticeAge = 0
  /\ enteredFrom = "none"
  /\ morphedFrom = Null

(* ------------------------------------------------------------------ *)
(* Utility functions of the front end                                   *)
(*                                                                      *)
(* A string is a sequence of characters; the characters that matter are *)
(* a white-space character and one that is not.                         *)
(* ------------------------------------------------------------------ *)

Chars == {" ", "k"}

Strings == SeqsUpTo(Chars, MaxStringLen)

RECURSIVE TrimStart(_)
TrimStart(str) ==
  IF str # <<>> /\ Head(str) = " " THEN TrimStart(Tail(str)) ELSE str

RECURSIVE TrimEnd(_)
TrimEnd(str) ==
  IF str # <<>> /\ str[Len(str)] = " "
    THEN TrimEnd(SubSeq(str, 1, Len(str) - 1)) ELSE str

\* String.prototype.trim
Trim(str) == TrimEnd(TrimStart(str))

\* a call of a function: its name, its argument and what it returned
FnCall(op, input, output) == [op |-> op, input |-> input, output |-> output]

NoCall == FnCall("none", <<>>, <<>>)

\* the providers a stored configuration may name as active
AsrProviders == {"qwen", "doubao", "doubao_ime", "siliconflow", "unknown"}

FALLBACK_ASR_PROVIDER == "doubao_ime"

\* AsrConfig: the active provider and the credentials validity depends on
AsrConfigs ==
  [active_provider : AsrProviders,
   qwen_api_key : Strings,
   sensevoice_api_key : Strings,
   doubao_app_id : Strings,
   doubao_access_token : Strings]

\* mutant: an app id alone makes a doubao configuration valid
isAsrConfigValidAppIdOnly(config) ==
  LET provider == config.active_provider
  IN IF provider = "qwen" THEN Trim(config.qwen_api_key) # <<>>
     ELSE IF provider = "doubao" THEN Trim(config.doubao_app_id) # <<>>
     ELSE IF provider = "doubao_ime" THEN TRUE
     ELSE IF provider = "siliconflow" THEN Trim(config.sensevoice_api_key) # <<>>
     ELSE FALSE

isAsrConfigValid(config) ==
  LET provider == config.active_provider
  IN IF provider = "qwen" THEN Trim(config.qwen_api_key) # <<>>
     ELSE IF provider = "doubao"
       THEN Trim(config.doubao_app_id) # <<>> /\ Trim(config.doubao_access_token) # <<>>
     ELSE IF provider = "doubao_ime" THEN TRUE
     ELSE IF provider = "siliconflow" THEN Trim(config.sensevoice_api_key) # <<>>
     ELSE FALSE

normalizeAsrConfigWithFallback(config) ==
  LET fallbackConfig == [config EXCEPT !.active_provider = FALLBACK_ASR_PROVIDER]
  IN IF isAsrConfigValid(config) THEN [config |-> config, didFallback |-> FALSE]
     ELSE IF isAsrConfigValid(fallbackConfig)
       THEN [config |-> fallbackConfig, didFallback |-> TRUE]
     ELSE [config |-> config, didFallback |-> FALSE]

\* normalizeAsrConfigWithFallback is called with a configuration
CallNormalizeAsrConfig ==
  /\ fnCall = NoCall
  /\ \E config \in AsrConfigs :
        fnCall' = FnCall("normalizeAsrConfigWithFallback", config,
                         normalizeAsrConfigWithFallback(config))
  /\ UNCHANGED notFn

\* getSyncWindowNoticeMessage: the text, named by its source
SyncWindowSources == {Null} \cup {Some(source) : source \in Sources}

\* mutant: the initial load has no message of its own
getSyncWindowNoticeMessageExternalOnly(source) ==
  IF source = Some("external_config_updated") THEN Some(<<"sync_window", source[1]>>)
  ELSE Null

getSyncWindowNoticeMessage(source) ==
  IF source = Some("initial_load") THEN Some(<<"sync_window", "initial_load">>)
  ELSE IF source = Some("external_config_updated")
    THEN Some(<<"sync_window", "external_config_updated">>)
  ELSE Null

ConfigSyncStatuses == {"idle", "syncing", "success", "error"}

UpdateStatuses == {"idle", "checking", "available", "downloading", "ready"}

\* updateDownloadProgress: undefined, or a number, counted in halves of a percent
Progresses == {Null} \cup {Some(h) : h \in (0 - MaxOvershoot) .. (2 * PROGRESS_MAX + MaxOvershoot)}

\* Math.round of a number given in halves
RoundHalves(h) == (h + 1) \div 2

Min(a, b) == IF a <= b THEN a ELSE b

GlobalNoticePayload(message, loading, tone) ==
  Some([message |-> message, loading |-> loading, tone |-> tone])

ResolveGlobalNoticeParams ==
  [syncWindowSource : SyncWindowSources,
   syncStatus : ConfigSyncStatuses,
   updateStatus : UpdateStatuses,
   updateDownloadProgress : Progresses]

resolveGlobalNotice(params) ==
  LET syncWindowMessage == getSyncWindowNoticeMessage(params.syncWindowSource)
      progress == IF params.updateDownloadProgress = Null THEN 0
                  ELSE RoundHalves(params.updateDownloadProgress[1])
      normalizedProgress == Min(PROGRESS_MAX, Max(0, progress))
  IN IF syncWindowMessage # Null
       THEN GlobalNoticePayload(syncWindowMessage[1], TRUE, "info")
     ELSE IF params.syncStatus = "syncing"
       THEN GlobalNoticePayload(<<"saving">>, TRUE, "info")
     ELSE IF params.syncStatus = "success"
       THEN GlobalNoticePayload(<<"saved">>, FALSE, "success")
     ELSE IF params.syncStatus = "error"
       THEN GlobalNoticePayload(<<"save_failed">>, FALSE, "error")
     ELSE IF params.updateStatus = "checking"
       THEN GlobalNoticePayload(<<"checking_update">>, TRUE, "info")
     ELSE IF params.updateStatus = "downloading"
       THEN GlobalNoticePayload(<<"downloading_update", normalizedProgress>>, TRUE, "info")
     ELSE IF params.updateStatus = "ready"
       THEN GlobalNoticePayload(<<"update_ready">>, FALSE, "success")
     ELSE IF params.updateStatus = "available"
       THEN GlobalNoticePayload(<<"update_available">>, FALSE, "warning")
     ELSE Null

\* resolveGlobalNotice is called
CallResolveGlobalNotice ==
  /\ fnCall = NoCall
  /\ \E params \in ResolveGlobalNoticeParams :
        fnCall' = FnCall("resolveGlobalNotice", params, resolveGlobalNotice(params))
  /\ UNCHANGED notFn

\* the caller is done with what the call returned
\* builtinDictionary.ts: the names of the current snapshot are the keys of
\* builtinDictionaryMap; sanitizeDomains keeps trimmed, non-empty names only
BUILTIN_DICTIONARY_LIMIT == 5

SnapshotNames == {Trim(str) : str \in Strings} \ {<<>>}
builtinDictionaryMaps == SUBSET SnapshotNames
DomainLists == SeqsUpTo(Strings, MaxDomains)
Limits == (1 .. MaxLimit) \cup {BUILTIN_DICTIONARY_LIMIT}

\* mutant: the loop stops one domain too late
LimitReachedLate(normalized, limit) == Len(normalized) > limit

\* if (normalized.length >= limit) break
LimitReached(normalized, limit) == Len(normalized) >= limit

\* the loop of normalizeBuiltinDictionaryDomains from the i-th domain on
RECURSIVE normalizeFrom(_, _, _, _, _, _)
normalizeFrom(domains, i, normalized, seen, limit, map) ==
  IF i > Len(domains) THEN normalized
  ELSE LET trimmed == Trim(domains[i])
       IN IF trimmed = <<>> \/ trimmed \in seen
            THEN normalizeFrom(domains, i + 1, normalized, seen, limit, map)
          ELSE IF trimmed \notin map
            THEN normalizeFrom(domains, i + 1, normalized, seen, limit, map)
          ELSE LET pushed == Append(normalized, trimmed)
               IN IF LimitReached(pushed, limit) THEN pushed
                  ELSE normalizeFrom(domains, i + 1, pushed,
                                     seen \cup {trimmed}, limit, map)

normalizeBuiltinDictionaryDomains(domains, limit, map) ==
  normalizeFrom(domains, 1, <<>>, {}, limit, map)

CallNormalizeBuiltinDictionaryDomains ==
  /\ fnCall = NoCall
  /\ \E domains \in DomainLists, limit \in Limits, map \in builtinDictionaryMaps :
        fnCall' = FnCall("normalizeBuiltinDictionaryDomains",
                         [domains |-> domains, limit |-> limit, map |-> map],
                         normalizeBuiltinDictionaryDomains(domains, limit, map))
  /\ UNCHANGED notFn

FnReturn ==
  /\ fnCall # NoCall
  /\ fnCall' = NoCall
  /\ UNCHANGED notFn

FnInit == fnCall = NoCall

(* ------------------------------------------------------------------ *)
(* Debounced auto-save of the configuration (App.tsx,                   *)
(* useAppServiceController.ts).  A status change, its render and the    *)
(* effects of that render are one step; an await is a step boundary.    *)
(* ------------------------------------------------------------------ *)
AppStatuses ==
  {"idle", "running", "recording", "transcribing", "polishing",
   "assistant_processing"}

\* the statuses in which the auto-save neither schedules nor saves
Capturing == {"recording", "transcribing"}

SaveStep(op, at, cleared) == [op |-> op, status |-> at, cleared |-> cleared]

\* mutant: only entering recording clears the pending timer
ClearsAutoSaveRecordingOnly(s) == s = "recording"

\* App.tsx 627-633: if (status !== "recording" && status !== "transcribing") return
ClearsAutoSave(s) == s \in Capturing

\* App.tsx 635-680, useAppServiceController.ts 247-275: the hot update
Configs == 1 .. NumConfigs

ApplyStep(op, hash, at, ok, before) ==
  [op |-> op, hash |-> hash, status |-> at, ok |-> ok, before |-> before]

\* the calls of update_runtime_config in flight
RECURSIVE AppliesUpTo(_)
AppliesUpTo(h) == IF h = 0 THEN 0 ELSE applies[h] + AppliesUpTo(h - 1)
AppliesInFlight == AppliesUpTo(NumConfigs)

\* a step that is no part of the hot update
NoApply == ApplyStep("none", 0, "idle", FALSE, Null)

\* the effect of App.tsx 640-680, run by a render with status st and the
\* settings cfg; applyRuntimeConfig (247-275) is the one of that render
HotUpdateEffect(st, cfg) ==
  IF ~hasLoadedConfigRef \/ st # "running"
    THEN /\ applyLast' = ApplyStep("returned", cfg, st, FALSE, lastAppliedConfigHashRef)
         /\ UNCHANGED <<lastAppliedConfigHashRef, applies>>
  ELSE IF lastAppliedConfigHashRef = Null
    THEN /\ lastAppliedConfigHashRef' = Some(cfg)
         /\ applyLast' = ApplyStep("baseline", cfg, st, FALSE, lastAppliedConfigHashRef)
         /\ UNCHANGED applies
  ELSE IF Some(cfg) = lastAppliedConfigHashRef
    THEN /\ applyLast' = ApplyStep("unchanged", cfg, st, FALSE, lastAppliedConfigHashRef)
         /\ UNCHANGED <<lastAppliedConfigHashRef, applies>>
  ELSE /\ AppliesInFlight < MaxApplies
       /\ applies' = [applies EXCEPT ![cfg] = @ + 1]
       /\ applyLast' = ApplyStep("update_runtime_config", cfg, st, FALSE,
                                  lastAppliedConfigHashRef)
       /\ UNCHANGED lastAppliedConfigHashRef

\* the step is no part of the hot update
HotUpdateIdle ==
  /\ applyLast' = NoApply
  /\ UNCHANGED <<hotConfig, lastAppliedConfigHashRef, applies>>

\* mutant: the baseline is advanced whatever applyRuntimeConfig returned
AdvancesAlways(success) == TRUE

\* App.tsx 674: if (success)
Advances(success) == success

\* update_runtime_config returns or throws: applyRuntimeConfig resolves with
\* true or false and the effect's then-callback runs (App.tsx 673-679)
ApplyReturns(hash, success) ==
  /\ applies[hash] > 0
  /\ applies' = [applies EXCEPT ![hash] = @ - 1]
  /\ lastAppliedConfigHashRef' =
       IF Advances(success) THEN Some(hash) ELSE lastAppliedConfigHashRef
  /\ applyLast' = ApplyStep("resolved", hash, status, success, lastAppliedConfigHashRef)
  /\ UNCHANGED <<status, statusRef, autoSaveTimerRef, autoSaveArmed, hasLoadedConfigRef,
                 configLoadEpochRef, lastSeenConfigEpochRef, saves, saveLast, hotConfig>>
  /\ UNCHANGED notSave

\* setStatus(s) with a changed status: the render, statusRef's effect
\* (415-417) and the effect that clears the timer (627-633).  The callers are
\* the event listeners (useTauriEventListeners.ts 139-235), loadConfig and
\* handleStartStop.
SetStatus(s) ==
  /\ s # status
  /\ status' = s
  /\ statusRef' = s
  /\ IF ClearsAutoSave(s) /\ autoSaveTimerRef # Null
       THEN /\ autoSaveTimerRef' = Null
            /\ autoSaveArmed' = FALSE
            /\ saveLast' = SaveStep("setStatus", s, autoSaveArmed)
       ELSE /\ UNCHANGED <<autoSaveTimerRef, autoSaveArmed>>
            /\ saveLast' = SaveStep("setStatus", s, FALSE)
  /\ HotUpdateEffect(s, hotConfig)
  /\ UNCHANGED hotConfig
  /\ UNCHANGED <<hasLoadedConfigRef, configLoadEpochRef, lastSeenConfigEpochRef, saves>>
  /\ UNCHANGED notSave

\* App.tsx 584-588: loadConfig has returned
LoadConfigDone ==
  /\ ~hasLoadedConfigRef
  /\ hasLoadedConfigRef' = TRUE
  /\ configLoadEpochRef' = configLoadEpochRef + 1
  /\ saveLast' = SaveStep("loadConfig", status, FALSE)
  /\ HotUpdateIdle
  /\ UNCHANGED <<status, statusRef, autoSaveTimerRef, autoSaveArmed,
                 lastSeenConfigEpochRef, saves>>
  /\ UNCHANGED notSave

\* App.tsx 684-723: a saved setting changed; the cleanup of the effect's last
\* run clears the timer it set, then the effect runs again.  When the setting
\* is a hot-updatable one (cfg differs), the render runs the hot update's
\* effect as well.
ConfigChanged(cfg) ==
  /\ hotConfig' = cfg
  /\ IF cfg # hotConfig THEN HotUpdateEffect(status, cfg)
       ELSE applyLast' = NoApply /\ UNCHANGED <<lastAppliedConfigHashRef, applies>>
  /\ IF ~hasLoadedConfigRef \/ status \in Capturing
       THEN /\ autoSaveArmed' = FALSE
            /\ saveLast' = SaveStep("skipped", status, FALSE)
            /\ UNCHANGED <<autoSaveTimerRef, lastSeenConfigEpochRef>>
       ELSE IF configLoadEpochRef # lastSeenConfigEpochRef
       THEN /\ lastSeenConfigEpochRef' = configLoadEpochRef
            /\ autoSaveArmed' = FALSE
            /\ saveLast' = SaveStep("skipped", status, FALSE)
            /\ UNCHANGED autoSaveTimerRef
       ELSE /\ autoSaveTimerRef' = Some("timer")
            /\ autoSaveArmed' = TRUE
            /\ saveLast' = SaveStep("setTimeout", status, FALSE)
            /\ UNCHANGED lastSeenConfigEpochRef
  /\ UNCHANGED <<status, statusRef, hasLoadedConfigRef, configLoadEpochRef, saves>>
  /\ UNCHANGED notSave

\* a call of handleSaveConfig: the await it is at, and the status of the
\* render it was created in (its dependency, useAppServiceController.ts 699)
SaveCall(at, closed) == [at |-> at, status |-> closed]

\* App.tsx 701-705: the debounce timer fires
AutoSaveTimerFires ==
  /\ autoSaveArmed
  /\ autoSaveArmed' = FALSE
  /\ IF statusRef \in Capturing
       THEN /\ saveLast' = SaveStep("timer_returned", status, FALSE)
            /\ UNCHANGED saves
       ELSE /\ Cardinality(saves) < MaxSaves
            /\ saves' = saves \cup {SaveCall("save_config", status)}
            /\ saveLast' = SaveStep("handleSaveConfig", status, FALSE)
  /\ UNCHANGED <<status, statusRef, autoSaveTimerRef, hasLoadedConfigRef,
                 configLoadEpochRef, lastSeenConfigEpochRef>>
  /\ HotUpdateIdle
  /\ UNCHANGED notSave

\* useAppServiceController.ts 673: if (status === "running")
Restarts(call) == call.status = "running"

\* useAppServiceController.ts 665-674: save_config has returned
SaveConfigReturns(call, ok) ==
  /\ call \in saves /\ call.at = "save_config"
  /\ IF ok /\ Restarts(call)
       THEN /\ saves' = (saves \ {call}) \cup {SaveCall("stop_app", call.status)}
            /\ saveLast' = SaveStep("stop_app", status, FALSE)
       ELSE /\ saves' = saves \ {call}
            /\ saveLast' = SaveStep("saved", status, FALSE)
  /\ UNCHANGED <<status, statusRef, autoSaveTimerRef, autoSaveArmed,
                 hasLoadedConfigRef, configLoadEpochRef, lastSeenConfigEpochRef>>
  /\ HotUpdateIdle
  /\ UNCHANGED notSave

\* useAppServiceController.ts 674-675: stop_app has returned
StopAppReturns(call, ok) ==
  /\ call \in saves /\ call.at = "stop_app"
  /\ IF ok
       THEN /\ saves' = (saves \ {call}) \cup {SaveCall("start_app", call.status)}
            /\ saveLast' = SaveStep("start_app", status, FALSE)
       ELSE /\ saves' = saves \ {call}
            /\ saveLast' = SaveStep("failed", status, FALSE)
  /\ UNCHANGED <<status, statusRef, autoSaveTimerRef, autoSaveArmed,
                 hasLoadedConfigRef, configLoadEpochRef, lastSeenConfigEpochRef>>
  /\ HotUpdateIdle
  /\ UNCHANGED notSave

\* useAppServiceController.ts 675-696: start_app has returned or thrown
StartAppReturns(call) ==
  /\ call \in saves /\ call.at = "start_app"
  /\ saves' = saves \ {call}
  /\ saveLast' = SaveStep("restarted", status, FALSE)
  /\ UNCHANGED <<status, statusRef, autoSaveTimerRef, autoSaveArmed,
                 hasLoadedConfigRef, configLoadEpochRef, lastSeenConfigEpochRef>>
  /\ HotUpdateIdle
  /\ UNCHANGED notSave

SaveInit ==
  /\ status = "idle" /\ statusRef = "idle"
  /\ autoSaveTimerRef = Null /\ autoSaveArmed = FALSE
  /\ hasLoadedConfigRef = FALSE
  /\ configLoadEpochRef = 0 /\ lastSeenConfigEpochRef = 0
  /\ saves = {}
  /\ saveLast = [op |-> "init", status |-> "idle", cleared |-> FALSE]
  /\ hotConfig = 1
  /\ lastAppliedConfigHashRef = Null
  /\ applies = [h \in Configs |-> 0]
  /\ applyLast = NoApply

(* ------------------------------------------------------------------ *)
(* The effect that registers the event listeners (OverlayWindow.tsx     *)
(* 224-293; useTauriEventListeners.ts 100-311 has the same shape).      *)
(* Each run of the effect has its own cancelled and unlistenFns.        *)
(* ------------------------------------------------------------------ *)
\* the events setup registers a listener for, in order
ListenerEvents ==
  <<"config_updated", "recording_started", "recording_locked",
    "recording_stopped", "transcribing", "transcription_complete", "error",
    "transcription_cancelled">>

Runs == 1 .. MaxMounts

\* a run of the effect: where setup is, the index of the event it registers,
\* and the closure's cancelled and unlistenFns
Mount(at, next, cancelled, fns) ==
  [at |-> at, next |-> next, cancelled |-> cancelled, unlistenFns |-> fns]

NotMounted == Mount("none", 0, FALSE, {})

ListenStep(op, run, event) == [op |-> op, run |-> run, event |-> event]

\* the effect runs and setup calls listen for the first event; React runs
\* the cleanup of the previous run before it
EffectRuns(run) ==
  /\ mounts[run] = NotMounted
  /\ run > 1 => mounts[run - 1].cancelled
  /\ mounts' = [mounts EXCEPT ![run] = Mount("listen", 1, FALSE, {})]
  /\ listenLast' = ListenStep("listen", run, 1)
  /\ UNCHANGED subscribed
  /\ UNCHANGED notListen

\* the event system registers the handler of the pending listen call
ListenRegisters(run) ==
  /\ mounts[run].at = "listen"
  /\ <<run, mounts[run].next>> \notin subscribed
  /\ subscribed' = subscribed \cup {<<run, mounts[run].next>>}
  /\ listenLast' = ListenStep("registered", run, mounts[run].next)
  /\ UNCHANGED mounts
  /\ UNCHANGED notListen

\* mutant: registerListener keeps the listener whatever cancelled is
UnlistensAtOnceNever(cancelled) == FALSE

\* registerListener: if (cancelled) { unlisten(); return false; }
UnlistensAtOnce(cancelled) == cancelled

\* await listen(...) returns the unlisten function: registerListener goes on,
\* and setup registers the next listener or returns
ListenResolves(run) ==
  LET m == mounts[run]
  IN /\ m.at = "listen"
     /\ <<run, m.next>> \in subscribed
     /\ IF UnlistensAtOnce(m.cancelled)
          THEN /\ subscribed' = subscribed \ {<<run, m.next>>}
               /\ mounts' = [mounts EXCEPT ![run].at = "returned"]
               /\ listenLast' = ListenStep("unlisten", run, m.next)
          ELSE /\ UNCHANGED subscribed
               /\ IF m.next < Len(ListenerEvents)
                    THEN /\ mounts' = [mounts EXCEPT ![run] =
                                 Mount("listen", m.next + 1, m.cancelled,
                                       m.unlistenFns \cup {m.next})]
                         /\ listenLast' = ListenStep("listen", run, m.next + 1)
                    ELSE /\ mounts' = [mounts EXCEPT ![run] =
                                 Mount("returned", m.next, m.cancelled,
                                       m.unlistenFns \cup {m.next})]
                         /\ listenLast' = ListenStep("returned", run, m.next)
     /\ UNCHANGED notListen

\* await listen(...) throws: setup ends
ListenRejects(run) ==
  /\ mounts[run].at = "listen"
  /\ <<run, mounts[run].next>> \notin subscribed
  /\ mounts' = [mounts EXCEPT ![run].at = "returned"]
  /\ listenLast' = ListenStep("rejected", run, mounts[run].next)
  /\ UNCHANGED subscribed
  /\ UNCHANGED notListen

\* the effect's cleanup: cancelled = true; unlistenFns.forEach(fn => fn())
EffectCleanup(run) ==
  /\ mounts[run] # NotMounted
  /\ ~mounts[run].cancelled
  /\ mounts' = [mounts EXCEPT ![run].cancelled = TRUE]
  /\ subscribed' = subscribed \ {<<run, i>> : i \in mounts[run].unlistenFns}
  /\ listenLast' = ListenStep("cleanup", run, mounts[run].next)
  /\ UNCHANGED notListen

ListenInit ==
  /\ mounts = [run \in Runs |-> NotMounted]
  /\ subscribed = {}
  /\ listenLast = ListenStep("init", 0, 0)

(* ------------------------------------------------------------------ *)
(* Specification of the session lifecycle                               *)
(* ------------------------------------------------------------------ *)

SessInit ==
  /\ state = "Idle" /\ physDown = FALSE /\ capture = 0 /\ active = 0
  /\ wdElapsed = 0 /\ transElapsed = 0 /\ lockedFor = 0 /\ ghostFor = 0
  /\ evq = <<>>
  /\ ovStatus = "recording" /\ isLocked = FALSE /\ isSubmitting = FALSE
  /\ lockTimer = TimerOff /\ transTimer = TimerOff
  /\ mainStatus = "running"
  /\ lastCmd = NoCmd /\ lastOk = TRUE

Init == SessInit /\ CoordInit /\ SyncInit /\ WsInit /\ NoticeInit /\ FnInit /\ SaveInit /\ ListenInit

Next ==
  \/ HotkeyPress
  \/ HotkeyRelease
  \/ MissedRelease
  \/ TogglePress
  \/ DeviceError
  \/ TranscriptionDone
  \/ Watchdog
  \/ Deliver
  \/ OverlayLockTimeout
  \/ OverlayTranscribingTimeout
  \/ OverlayFinish
  \/ OverlayCancel
  \/ MainCancelTranscription
  \/ Tick

Spec == Init /\ [][Next]_vars

\* the steps that happen without the user: time passes, the watchdog and the
\* timers run, queued events are handled and the coordinator returns
Progress ==
  \/ Tick
  \/ Watchdog
  \/ Deliver
  \/ OverlayLockTimeout
  \/ OverlayTranscribingTimeout
  \/ TranscriptionDone

LiveSpec == Init /\ [][Next]_vars /\ WF_vars(Progress)

(* ------------------------------------------------------------------ *)
(* Properties of the session lifecycle                                  *)
(* ------------------------------------------------------------------ *)

Last(q) == q[Len(q)]

\* the step is the overlay's 60 s lock timeout firing
LockTimeoutFires == lastCmd'.by = "lock_timeout"

\* C1: a session that is Locked is never Locked for more than 60 s: when the
\* overlay's lock timeout fires on a Locked session, 60 s after it was locked,
\* cancel_locked_recording is issued and accepted, the session returns to
\* Idle with capture stopped and transcription_cancelled is emitted.
C1_LockTimeoutAutoCancels ==
  [][ /\ (state' = "Locked" => lockedFor' <= LockTimeoutTicks)
      /\ (LockTimeoutFires /\ state = "Locked" =>
            /\ lockedFor = LockTimeoutTicks
            /\ lastCmd'.cmd = "cancel_locked_recording"
            /\ lastOk'
            /\ state' = "Idle"
            /\ capture' = 0
            /\ evq' = Append(evq, Ev("transcription_cancelled")))
    ]_vars

\* C1 witness: the lock timeout has fired on a Locked session and cancelled it
C1_Witness ==
  /\ lastCmd = Cmd("lock_timeout", "cancel_locked_recording")
  /\ lastOk
  /\ state = "Idle"
  /\ evq = <<Ev("transcription_cancelled")>>

TerminalEvents == {"transcription_complete", "error", "transcription_cancelled"}

\* C2: a session that is Transcribing always eventually returns to Idle, and
\* is never Transcribing for longer than the sum of the configured timeouts
\* and retries; it leaves Transcribing only for Idle, emitting a result, an
\* error or a cancellation; and once that event is handled the main window
\* no longer shows a transcribing (or polishing, assistant_processing) status.
C2_TranscribingEnds ==
  /\ (state = "Transcribing") ~> (state = "Idle")
  /\ [][ /\ (state' = "Transcribing" => transElapsed' <= TranscribeBoundTicks)
         /\ (state = "Transcribing" /\ state' # "Transcribing" =>
               /\ state' = "Idle"
               /\ Len(evq') = Len(evq) + 1
               /\ Last(evq').name \in TerminalEvents)
         /\ (evq' = <<>> /\ mainStatus' \in MainBusy => state' = "Transcribing")
       ]_vars

\* C2 witness: a failed transcription has returned the session to Idle and
\* its error event is on the way to the windows
C2_Witness ==
  /\ state = "Idle"
  /\ evq = <<Ev("error")>>
  /\ mainStatus = "transcribing"
  /\ ovStatus = "transcribing"

\* C3: at most one session and one capture stream exist at any time, and a
\* hotkey press while Recording, Locked or Transcribing is ignored: it changes
\* neither the state, the capture, the sessions nor the events in flight.
C3_OneSession ==
  [][ /\ active' <= 1
      /\ capture' <= 1
      /\ (active' = 1 <=> state' # "Idle")
      /\ (lastCmd' = Cmd("hotkey", "start_capture") /\ state # "Idle" =>
            /\ ~lastOk'
            /\ UNCHANGED <<state, capture, active, evq, ovVars, mainVars>>)
    ]_vars

\* C3 witness: a press arrived during Transcribing and was ignored
C3_Witness ==
  /\ lastCmd = Cmd("hotkey", "start_capture")
  /\ ~lastOk
  /\ state = "Transcribing"
  /\ active = 1

AllowedTransitions ==
  {<<"Idle", "Recording">>, <<"Recording", "Locked">>,
   <<"Recording", "Transcribing">>, <<"Locked", "Transcribing">>}
  \cup {<<s, "Idle">> : s \in States \ {"Idle"}}

\* the session state the main window shows
MainView(st) ==
  CASE st = "running" -> "Idle"
    [] st = "recording" -> "Recording"
    [] st \in MainBusy -> "Transcribing"
    [] OTHER -> "Unknown"

\* the session state the overlay shows (it is hidden while Idle)
OvView(st, locked) ==
  IF st = "transcribing" THEN "Transcribing"
  ELSE IF locked THEN "Locked" ELSE "Recording"

\* C9: the backend state moves only along Idle -> Recording -> (Locked) ->
\* Transcribing -> Idle or from any state back to Idle; the status shown by
\* the main window moves along the same edges, and the overlay shows Locked
\* only coming from Recording.
C9_Transitions ==
  [][ /\ (state' # state => <<state, state'>> \in AllowedTransitions)
      /\ (MainView(mainStatus') # MainView(mainStatus) =>
            <<MainView(mainStatus), MainView(mainStatus')>> \in AllowedTransitions)
      /\ (OvView(ovStatus', isLocked') = "Locked" /\ OvView(ovStatus, isLocked) # "Locked"
            => OvView(ovStatus, isLocked) = "Recording")
    ]_vars

\* C9 witness: a locked session went on to Transcribing and all windows show it
C9_Witness ==
  /\ state = "Transcribing"
  /\ isLocked
  /\ ovStatus = "transcribing"
  /\ mainStatus = "transcribing"
  /\ evq = <<>>

\* the step is the watchdog running
WatchdogRuns == wdElapsed >= WatchdogTicks /\ wdElapsed' = 0

\* C10: when the release of a pressed hotkey was missed, the ghost-key
\* condition lasts at most one watchdog interval (500 ms): the watchdog then
\* forces the machine to Idle with capture stopped.
C10_WatchdogRecovers ==
  [][ /\ ghostFor' <= WatchdogTicks
      /\ (WatchdogRuns /\ Ghost =>
            /\ state' = "Idle"
            /\ capture' = 0
            /\ active' = 0)
    ]_vars

\* C10 witness: the watchdog has forced a stuck Recording back to Idle
C10_Witness ==
  /\ lastCmd = Cmd("watchdog", "force_idle")
  /\ state = "Idle"
  /\ capture = 0
  /\ ~physDown

(* ------------------------------------------------------------------ *)
(* Specifications of the coordinator and of the sync-window controller  *)
(* ------------------------------------------------------------------ *)

CoordNext ==
  \/ \E policy \in Policies : CoordStart(policy)
  \/ \E p \in Providers, err \in Errors : TryFails(p, err)
  \/ \E p \in Providers : TrySucceeds(p)
  \/ \E p \in Providers : LateResponse(p)
  \/ \E w \in Results : ApplyResult(w)
  \/ CoordCancel
  \/ CoordReturn

SpecCoord == Init /\ [][CoordNext]_vars

SyncNext ==
  \/ \E source \in Sources : SyncBegin(source)
  \/ \E token \in Tokens : SyncComplete(token)
  \/ \E token \in Tokens : SyncSchedule(token)
  \/ \E token \in Tokens : SyncMicrotask(token)
  \/ SyncFrame

SpecSync == Init /\ [][SyncNext]_vars

(* ------------------------------------------------------------------ *)
(* Properties of the coordinator                                        *)
(* ------------------------------------------------------------------ *)

\* the step commits a result of the current session to the empty slot
Commits == slot = NoResult /\ slot' # NoResult /\ cSession' = cSession

C5_SlotWrittenOnce ==
  [][ /\ (slot # NoResult /\ cSession' = cSession => slot' = slot)
      /\ (slot' # NoResult => slot'.session = cSession')
      /\ (slot' # slot /\ slot' # NoResult => cLast'.op = "commit")
      /\ (cLast'.op = "drop" =>
            /\ writes' # writes
            /\ UNCHANGED <<slot, cOutcome, att, cPhase>>)
    ]_vars

\* C5 witness: the late response of a cancelled attempt was dropped after
\* another attempt of the same session had committed
C5_Witness ==
  /\ cLast.op = "drop"
  /\ cLast.session = cSession
  /\ slot # NoResult
  /\ slot.session = cSession
  /\ slot.provider # cLast.provider
  /\ att[cLast.provider].status = "cancelled"

\* the step is a try of provider p failing by timeout or transient network failure
TransientFailure(p) ==
  cLast'.op = "fail" /\ cLast'.provider = p /\ att'[p].err \in Retryable

\* C6: no provider is tried more than 3 times; a try that fails by timeout or
\* transient network failure is followed by another try while fewer than 3
\* were made, and reports the provider failed at the 3rd; a provider whose
\* try succeeds, the 3rd included, and whose result is committed yields success.
C6_RetryBudget ==
  [][ \A p \in Providers :
        /\ att'[p].tries <= 3
        /\ (TransientFailure(p) /\ att[p].tries < 3 =>
              /\ att'[p].status = "running"
              /\ att'[p].tries = att[p].tries + 1)
        /\ (TransientFailure(p) /\ att[p].tries = 3 =>
              /\ att'[p].status = "failed"
              /\ att'[p].tries = 3)
        /\ (att'[p].status = "won" =>
              cOutcome' = "success" /\ slot' = Result(cSession', p))
    ]_vars

\* C6 witness: under fallback the first provider failed on all 3 tries and the
\* second failed twice and succeeded on its 3rd try
C6_Witness ==
  /\ cPolicy = "fallback"
  /\ att[1] = Attempt("failed", 3, "Timeout")
  /\ att[2].status = "won"
  /\ att[2].tries = 3
  /\ cOutcome = "success"

\* the attempts of provider p are over and were reported failed: its retries
\* are used up (a ProtocolError or AuthError has none)
Exhausted(p) ==
  /\ att[p].status = "failed"
  /\ att[p].err \in Retryable => att[p].tries = MaxTries

\* C7: under fallback policy at most one attempt is in flight; a provider's
\* attempt has started only if the provider before it was reported failed
\* with its retries exhausted; and once a provider succeeded no later provider
\* is tried.
C7_FallbackInOrder ==
  cPolicy = "fallback" =>
    /\ Cardinality({p \in Providers : att[p].status \in InFlight}) <= 1
    /\ \A p \in Providers \ {1} :
          att[p].status # "pending" => Exhausted(p - 1)
    /\ \A p \in Providers :
          att[p].status \in {"completed", "won"} =>
             \A q \in Providers : q > p => att[q].status = "pending"

\* C7 witness: the second provider is being tried after the first exhausted
\* its retries
C7_Witness ==
  /\ cPolicy = "fallback"
  /\ att[1] = Attempt("failed", MaxTries, "NetworkError")
  /\ att[2].status = "running"
  /\ att[2].tries = 1

\* the step is a try of provider p failing with ProtocolError or AuthError
PermanentFailure(p) ==
  cLast'.op = "fail" /\ cLast'.provider = p /\ att'[p].err \in NotRetried

\* C14: a try that fails with ProtocolError or AuthError is not followed by
\* another try, whatever is left of the retry budget: the step reports the
\* provider failed with the number of tries unchanged, and a provider reported
\* failed is not tried again in the session.
C14_PermanentNotRetried ==
  [][ \A p \in Providers :
        /\ (PermanentFailure(p) =>
              /\ att'[p].status = "failed"
              /\ att'[p].tries = att[p].tries
              /\ (cPolicy = "fallback" /\ p < NumProviders =>
                     att'[p + 1] = Attempt("running", 1, "none")))
        /\ (att[p].status = "failed" /\ att[p].err \in NotRetried
               /\ cSession' = cSession => att'[p] = att[p])
    ]_vars

\* C14 witness: the first try of the first provider failed with AuthError,
\* with two retries left, and fallback moved on to the second provider
C14_Witness ==
  /\ cPolicy = "fallback"
  /\ cLast = CLast("fail", cSession, 1)
  /\ att[1] = Attempt("failed", 1, "AuthError")
  /\ att[1].tries < MaxTries
  /\ att[2] = Attempt("running", 1, "none")

\* C15: the coordinator returns failure only when the attempt of every
\* configured provider was reported failed, and the failure it returns names
\* for each provider the error of that provider's latest failed try; while any
\* provider's attempt completed or won, the outcome is not failure; and no
\* errors are named unless the outcome is failure.
C15_AggregateFailure ==
  /\ (cOutcome = "failure" =>
        \A p \in Providers :
           /\ att[p].status = "failed"
           /\ cFailure[p] \in Errors
           /\ cFailure[p] = lastErr[p])
  /\ ((\E p \in Providers : att[p].status \in {"completed", "won"}) =>
        cOutcome # "failure")
  /\ (cOutcome # "failure" => cFailure = NoErrors)

\* C15 witness: under race both providers failed, the first with a Timeout on
\* the last try of its budget, the second with an AuthError on its only try,
\* and the failure returned names exactly these
C15_Witness ==
  /\ cPolicy = "race"
  /\ cOutcome = "failure"
  /\ cPhase = "idle"
  /\ cLast.op = "return"
  /\ att[1] = Attempt("failed", MaxTries, "Timeout")
  /\ att[2] = Attempt("failed", 1, "AuthError")
  /\ cFailure = [p \in Providers |-> IF p = 1 THEN "Timeout" ELSE "AuthError"]

\* the attempts that completed successfully and whose results await the commit
CompletedTogether == {q \in Providers : att[q].status = "completed"}

\* C16: when the attempts of two providers have both completed successfully
\* before the coordinator applies a result, the commit takes the result of the
\* provider with the lowest index among them, and the other one is cancelled.
C16_TieBreak ==
  [][ cPolicy = "race" /\ Commits /\ Cardinality(CompletedTogether) >= 2 =>
        /\ slot'.provider \in CompletedTogether
        /\ \A q \in CompletedTogether : slot'.provider <= q
        /\ att'[slot'.provider].status = "won"
        /\ \A q \in CompletedTogether \ {slot'.provider} :
              att'[q].status = "cancelled"
    ]_vars

\* C16 witness: both providers had completed, the first one won and the
\* second one's result is still waiting, to be dropped
C16_Witness ==
  /\ cPolicy = "race"
  /\ cLast = CLast("commit", cSession, 1)
  /\ slot = Result(cSession, 1)
  /\ att[1].status = "won"
  /\ att[2].status = "cancelled"
  /\ Result(cSession, 2) \in writes

(* ------------------------------------------------------------------ *)
(* Properties of the sync-window controller                             *)
(* ------------------------------------------------------------------ *)

\* the step calls complete with a token of an earlier begin
CompletesOldToken ==
  /\ syncLast'.op \in {"complete", "frame"}
  /\ syncLast'.tokens # {}
  /\ \A t \in syncLast'.tokens : t < tokenSeed

\* C8: begin returns strictly increasing tokens starting at 1 and the active
\* token is that of the most recent begin; complete with an older token
\* returns false and leaves the window suppressed with its source; the window
\* closes only in a step that completes the most recent token, which returns
\* true and clears the source.
C8_OldTokenNeverEndsWindow ==
  [][ /\ (syncLast'.op = "begin" =>
            /\ syncLast'.tokens = {tokenSeed + 1}
            /\ tokenSeed' = tokenSeed + 1
            /\ activeToken' = Some(tokenSeed'))
      /\ (activeToken' # Null => activeToken' = Some(tokenSeed') /\ tokenSeed' >= 1)
      /\ (CompletesOldToken =>
            /\ syncLast'.ret = FALSE
            /\ UNCHANGED <<activeToken, activeSource>>)
      /\ (activeToken # Null /\ activeToken' = Null =>
            /\ syncLast'.op \in {"complete", "frame"}
            /\ tokenSeed \in syncLast'.tokens
            /\ syncLast'.ret = TRUE
            /\ activeSource' = Null)
    ]_vars

\* C8 witness: complete(1) was refused after a second begin, and the window
\* of token 2 is still open
C8_Witness ==
  /\ syncLast = SyncCall("complete", {1}, FALSE)
  /\ tokenSeed = 2
  /\ activeToken = Some(2)
  /\ activeSource # Null

\* the releases of token waiting at the given stage
Waiting(token, stage) == Release(token, stage) \in pending

\* the step calls complete(token) from a scheduled release
ReleaseCompletes(token) ==
  syncLast'.op = "frame" /\ token \in syncLast'.tokens /\ pending' # pending

\* C17: a scheduled release calls complete once, with its own token, in the
\* second animation frame after its microtask: the call is made by an
\* animation frame for a release that an earlier animation frame put at its
\* second frame, which it did only for a release its microtask had put at the
\* first frame; the release is gone after the call, and nothing else calls
\* complete on behalf of a release.
C17_ReleaseAfterTwoFrames ==
  [][ \A t \in Tokens :
        /\ (ReleaseCompletes(t) =>
              /\ Waiting(t, "frame2")
              /\ \A r \in pending' : r.token # t)
        /\ (Waiting(t, "frame2") /\ syncLast'.op = "frame" /\ pending' # pending =>
              t \in syncLast'.tokens)
        /\ (~Waiting(t, "frame2") /\ Waiting(t, "frame2")' =>
              Waiting(t, "frame1") /\ syncLast'.op = "frame")
        /\ (~Waiting(t, "frame1") /\ Waiting(t, "frame1")' =>
              Waiting(t, "microtask") /\ syncLast' = SyncCall("microtask", {t}, TRUE))
        /\ (~Waiting(t, "microtask") /\ Waiting(t, "microtask")' =>
              syncLast' = SyncCall("schedule", {t}, TRUE))
        /\ (Waiting(t, "microtask") \/ Waiting(t, "frame1") =>
              ~(syncLast'.op = "frame" /\ t \in syncLast'.tokens /\ pending' # pending))
        /\ Cardinality({r \in pending' : r.token = t}) <= 1
    ]_vars

\* C17 witness: the release scheduled for token 1 went through its microtask
\* and two animation frames, called complete(1), which closed the window, and
\* nothing is left of it
C17_Witness ==
  /\ syncLast = SyncCall("frame", {1}, TRUE)
  /\ tokenSeed = 1
  /\ activeToken = Null
  /\ pending = {}

\* C24: in every state of the controller the snapshot's isSuppressed is true
\* exactly when a source is set, the snapshot's source is that source, and
\* isExternalSyncing is true exactly when the source is external_config_updated.
C24_SnapshotMatchesWindow ==
  /\ getSnapshot.isSuppressed <=> activeSource # Null
  /\ getSnapshot.source = activeSource
  /\ getSnapshot.isExternalSyncing <=> activeSource = Some("external_config_updated")
  /\ getSnapshot.isExternalSyncing => getSnapshot.isSuppressed

\* C24 witness: after a window of an external update was closed, the window
\* of an initial load is open: suppressed, and not syncing externally
C24_Witness ==
  /\ syncLast.op = "begin"
  /\ tokenSeed = 2
  /\ activeSource = Some("initial_load")
  /\ getSnapshot =
       [isSuppressed |-> TRUE, source |-> Some("initial_load"),
        isExternalSyncing |-> FALSE]

(* ------------------------------------------------------------------ *)
(* Specification of the streaming ASR client                            *)
(* ------------------------------------------------------------------ *)

WsNext ==
  \/ \E content \in AudioContents, segment_size \in SegmentSizes :
        WsExecute(content, segment_size)
  \/ WsSendFullClientRequest
  \/ WsSendAudio
  \/ \E msg \in ServerMessages : WsReceive(msg)
  \/ \E i \in 1 .. MaxAudioLen + 1 : WsDecodeSent(i)

SpecWs == Init /\ [][WsNext]_vars

(* ------------------------------------------------------------------ *)
(* Specification of the notice capsule                                  *)
(* ------------------------------------------------------------------ *)

NoticeNext ==
  \/ \E n \in {Null} \cup {Some(x) : x \in Notices} : NoticeRender(n)
  \/ NoticeEffect
  \/ EntryDelayFires
  \/ EnterAnimFires
  \/ HoldFires
  \/ ExitAnimFires
  \/ NoticeTick

SpecNotice == Init /\ [][NoticeNext]_vars

\* the effect of a render runs, a timer that is due fires, and time passes;
\* nothing obliges the notice source to change
NoticeFairness ==
  /\ WF_vars(NoticeEffect)
  /\ WF_vars(EntryDelayFires)
  /\ WF_vars(EnterAnimFires)
  /\ WF_vars(HoldFires)
  /\ WF_vars(ExitAnimFires)
  /\ SF_vars(NoticeTick)

LiveSpecNotice == SpecNotice /\ NoticeFairness

(* ------------------------------------------------------------------ *)
(* Specification of the utility functions                               *)
(* ------------------------------------------------------------------ *)

FnNext ==
  \/ CallNormalizeAsrConfig
  \/ CallResolveGlobalNotice
  \/ CallNormalizeBuiltinDictionaryDomains
  \/ FnReturn

SpecFn == Init /\ [][FnNext]_vars

(* ------------------------------------------------------------------ *)
(* Specification of the debounced auto-save                             *)
(* ------------------------------------------------------------------ *)
SaveNext ==
  \/ \E s \in AppStatuses : SetStatus(s)
  \/ LoadConfigDone
  \/ \E cfg \in Configs : ConfigChanged(cfg)
  \/ AutoSaveTimerFires
  \/ \E call \in saves, ok \in BOOLEAN : SaveConfigReturns(call, ok)
  \/ \E call \in saves, ok \in BOOLEAN : StopAppReturns(call, ok)
  \/ \E call \in saves : StartAppReturns(call)
  \/ \E hash \in Configs, success \in BOOLEAN : ApplyReturns(hash, success)

SpecSave == Init /\ [][SaveNext]_vars

(* ------------------------------------------------------------------ *)
(* Specification of the listener effect                                 *)
(* ------------------------------------------------------------------ *)
ListenNext ==
  \/ \E run \in Runs : EffectRuns(run)
  \/ \E run \in Runs : ListenRegisters(run)
  \/ \E run \in Runs : ListenResolves(run)
  \/ \E run \in Runs : ListenRejects(run)
  \/ \E run \in Runs : EffectCleanup(run)

SpecListen == Init /\ [][ListenNext]_vars

(* ------------------------------------------------------------------ *)
(* Properties of the streaming ASR protocol                             *)
(* ------------------------------------------------------------------ *)

\* the fields of a request on the wire
SeqOf(frame) == UnpackI(SubSeq(frame, 5, 8))
FlagsOf(frame) == frame[2] % 16
TypeOf(frame) == frame[2] \div 16

Abs(n) == IF n < 0 THEN 0 - n ELSE n

\* the message given to the decoder is the i-th request sent, an audio request
DecodedSent(i) ==
  /\ i \in 2 .. Len(wsSent)
  /\ wsIn = wsSent[i]

\* C11: whenever an audio request built by the encoder has been given to the
\* decoder, the decoder raised nothing and the payload it returns is the
\* original segment.
C11_RoundTrip ==
  \A i \in 2 .. Len(wsSent) :
     DecodedSent(i) =>
        /\ wsResp.raised = "none"
        /\ wsResp.payload_msg = <<wsSegments[i - 1]>>

\* C12: the audio requests of a session carry the sequence numbers 2, 3, ...
\* in the order sent (1 is the full client request), each one more than the
\* one before in magnitude; the request of the final segment, and no other,
\* carries the number negated and the flag NEG_WITH_SEQUENCE.
C12_SequenceNumbers ==
  \A i \in 2 .. Len(wsSent) :
     LET is_last == i - 1 = Len(wsSegments)
     IN /\ TypeOf(wsSent[i]) = CLIENT_AUDIO_ONLY_REQUEST
        /\ Abs(SeqOf(wsSent[i])) = i
        /\ Abs(SeqOf(wsSent[i])) = Abs(SeqOf(wsSent[i - 1])) + 1
        /\ SeqOf(wsSent[i]) < 0 <=> is_last
        /\ FlagsOf(wsSent[i]) = (IF is_last THEN NEG_WITH_SEQUENCE ELSE POS_SEQUENCE)

\* C12 witness: a session of three segments has sent all of them, the third
\* as the terminal packet
C12_Witness ==
  /\ Len(wsSegments) = 3
  /\ Len(wsSent) = 4
  /\ SeqOf(wsSent[2]) = 2
  /\ SeqOf(wsSent[3]) = 3
  /\ SeqOf(wsSent[4]) = 0 - 4
  /\ FlagsOf(wsSent[4]) = NEG_WITH_SEQUENCE

\* the compression nibble of a message, and the values the protocol defines
CompressionOf(frame) == frame[3] % 16
SupportedCompression == {0, GZIP}

\* C13: whenever the decoder was given a message whose compression flag is
\* not supported, it reported ProtocolError.
C13_UnsupportedCompression ==
  Len(wsIn) >= 3 /\ CompressionOf(wsIn) \notin SupportedCompression =>
     wsResp.raised = "ProtocolError"


(* ------------------------------------------------------------------ *)
(* Properties of the notice capsule                                     *)
(* ------------------------------------------------------------------ *)

\* the step starts the exit of a capsule that was entering or stable
ExitStarts == phase \in {"entering", "stable"} /\ phase' = "exiting"

\* the hold of the tone displayed, in ticks
ToneHoldTicks == Ticks(HOLD_BY_TONE[displayed[1].tone])

\* C18: when the exit of an entering or stable capsule starts, the capsule has
\* been visible for at least the minimum visible time (600 ms) and at least
\* the hold of the displayed tone (success/warning 1200 ms, error 2200 ms,
\* info 0 ms) has passed since the notice source cleared.
C18_ExitAfterMinVisibleAndHold ==
  [][ ExitStarts =>
        /\ notice = Null
        /\ visibleFor >= Ticks(MIN_VISIBLE_MS)
        /\ clearedFor >= ToneHoldTicks
    ]_vars

\* the effect runs with a notice present while the capsule is exiting
NewNoticeWhileExiting ==
  effectPending /\ ~effectPending' /\ notice # Null /\ phase = "exiting"

\* C19: when the effect finds a new notice while the capsule is exiting, the
\* exit timer is cancelled, the capsule is entering and shows the new notice,
\* and the enter animation's timer is set; the capsule becomes hidden only
\* when the exit timer is due, which it never is for a capsule that entered
\* again; and a capsule that entered again from exiting, its notice source
\* not cleared since, has the enter timer running with at most the enter
\* animation's time left, and leaves entering only for stable, by that
\* timer's callback.
C19_ReEnterFromExiting ==
  /\ [][ /\ (NewNoticeWhileExiting =>
                /\ exitAnimRef' = Null
                /\ holdRef' = Null
                /\ phase' = "entering"
                /\ displayed' = notice
                /\ enterAnimRef' = Some(Ticks(ENTER_ANIM_MS)))
          /\ (phase # "hidden" /\ phase' = "hidden" =>
                phase = "exiting" /\ TimerDue(exitAnimRef))
          /\ (phase = "entering" /\ enteredFrom = "exiting" /\ phase' # "entering"
                 /\ notice # Null =>
                phase' = "stable" /\ TimerDue(enterAnimRef) /\ elapsed' = 0)
      ]_vars
  /\ [](exitAnimRef # Null => phase = "exiting")
  /\ [](phase = "entering" /\ enteredFrom = "exiting" =>
          /\ displayed # Null
          /\ enterAnimRef # Null
          /\ enterAnimRef[1] \in 0 .. Ticks(ENTER_ANIM_MS))

\* C19 witness: the capsule entered again from exiting with another notice
\* and has become stable showing it
C19_Witness ==
  /\ phase = "stable"
  /\ enteredFrom = "exiting"
  /\ elapsed = 0
  /\ notice = Some([tone |-> "error", message |-> 1])
  /\ displayed = notice
  /\ exitAnimRef = Null

\* the step displays a notice on a capsule that was hidden
DisplayedFromHidden == phase = "hidden" /\ (phase' # "hidden" \/ displayed' # Null)

\* C20: a capsule that is hidden is displayed only by the entry-delay timer's
\* callback, with the notice then present, which has been present without
\* interruption for the whole entry delay (80 ms); the effect of a cleared
\* notice cancels the entry timer; and while the notice source is cleared a
\* hidden capsule stays hidden with displayed null.
C20_ClearedWithinEntryDelay ==
  [][ /\ (DisplayedFromHidden =>
            /\ TimerDue(entryDelayRef)
            /\ notice # Null
            /\ noticeAge >= Ticks(ENTRY_DELAY_MS)
            /\ phase' = "entering"
            /\ displayed' = notice)
      /\ (effectPending /\ ~effectPending' /\ notice = Null => entryDelayRef' = Null)
      /\ (phase = "hidden" /\ notice = Null =>
            phase' = "hidden" /\ displayed' = Null)
      /\ (phase' = "hidden" => displayed' = Null)
    ]_vars

\* C20 witness: a notice appeared while the capsule was hidden and has been
\* cleared one tick before the end of the entry delay; the timer is still set
\* and the effect of the cleared notice is about to cancel it
C20_Witness ==
  /\ phase = "hidden"
  /\ displayed = Null
  /\ notice = Null
  /\ effectPending
  /\ entryDelayRef = Some(1)

\* the effect runs with a notice present while the capsule is entering or stable
NoticeWhileShown ==
  effectPending /\ ~effectPending' /\ notice # Null /\ phase \in {"entering", "stable"}

\* C21: when the effect finds a notice while the capsule is entering or
\* stable, the displayed content becomes that notice and the phase, the enter
\* timer and the time of becoming stable are left as they are, with no hold
\* or exit timer set; and while a notice is present before and after a step,
\* a capsule that is entering or stable does not go to exiting or hidden.
C21_MorphInPlace ==
  [][ /\ (NoticeWhileShown =>
            /\ displayed' = notice
            /\ phase' = phase
            /\ enterAnimRef' = enterAnimRef
            /\ elapsed' = elapsed
            /\ holdRef' = Null
            /\ exitAnimRef' = Null)
      /\ (phase \in {"entering", "stable"} /\ notice # Null /\ notice' # Null =>
            phase' \in {"entering", "stable"} /\ displayed' # Null)
    ]_vars

\* C21 witness: a stable capsule that showed an info notice now shows the
\* success notice that replaced it
C21_Witness ==
  /\ phase = "stable"
  /\ ~effectPending
  /\ notice = Some([tone |-> "success", message |-> 1])
  /\ displayed = notice
  /\ morphedFrom = Some([tone |-> "info", message |-> 1])
  /\ holdRef = Null
  /\ exitAnimRef = Null

(* ------------------------------------------------------------------ *)
(* Properties of the utility functions                                  *)
(* ------------------------------------------------------------------ *)

\* the string is empty or white space only
Blank(str) == \A i \in 1 .. Len(str) : str[i] = " "

\* the active provider lacks the credentials it requires
LacksCredentials(config) ==
  \/ config.active_provider = "qwen" /\ Blank(config.qwen_api_key)
  \/ /\ config.active_provider = "doubao"
     /\ Blank(config.doubao_app_id) \/ Blank(config.doubao_access_token)

\* C22: normalizeAsrConfigWithFallback returns a valid configuration as it is
\* with didFallback false; for qwen without its key, and for doubao without
\* its app id or without its access token, it returns the configuration with
\* only the active provider changed, to the fallback provider, with
\* didFallback true, and what it returns is valid.
C22_NormalizeAsrConfig ==
  fnCall.op = "normalizeAsrConfigWithFallback" =>
    /\ (isAsrConfigValid(fnCall.input) =>
          fnCall.output = [config |-> fnCall.input, didFallback |-> FALSE])
    /\ (LacksCredentials(fnCall.input) =>
          /\ fnCall.output.didFallback
          /\ fnCall.output.config =
               [fnCall.input EXCEPT !.active_provider = FALLBACK_ASR_PROVIDER]
          /\ fnCall.output.config.active_provider # fnCall.input.active_provider
          /\ isAsrConfigValid(fnCall.output.config))

\* C22 witness: a doubao configuration with an app id and no access token was
\* switched to the fallback provider
C22_Witness ==
  /\ fnCall.op = "normalizeAsrConfigWithFallback"
  /\ fnCall.input.active_provider = "doubao"
  /\ fnCall.input.doubao_app_id = <<"k">>
  /\ fnCall.input.doubao_access_token = <<>>
  /\ fnCall.output.didFallback
  /\ fnCall.output.config.active_provider = "doubao_ime"

\* the messages of the three kinds of notice
SyncWindowMessages == {<<"sync_window", source>> : source \in Sources}
SaveMessages == {<<"saving">>, <<"saved">>, <<"save_failed">>}
UpdateMessages ==
  {<<"checking_update">>, <<"update_ready">>, <<"update_available">>}
    \cup {<<"downloading_update", n>> : n \in 0 .. PROGRESS_MAX}

\* the parameters with the save status, the update status or both set to idle
WithoutSave(params) == [params EXCEPT !.syncStatus = "idle"]
WithoutUpdate(params) ==
  [params EXCEPT !.updateStatus = "idle", !.updateDownloadProgress = Null]

\* C23: with a sync-window source set, resolveGlobalNotice returns the sync
\* window's notice for that source, the same whatever the save and update
\* statuses are; otherwise, with a save status other than idle, the save
\* notice, the same whatever the update status is; otherwise, with an update
\* status other than idle, an update notice; and it returns null exactly when
\* no source is set and both statuses are idle.
C23_NoticePriority ==
  fnCall.op = "resolveGlobalNotice" =>
    LET params == fnCall.input
        out == fnCall.output
    IN /\ (params.syncWindowSource # Null =>
             /\ out # Null
             /\ out[1].message = <<"sync_window", params.syncWindowSource[1]>>
             /\ out = resolveGlobalNotice(WithoutSave(WithoutUpdate(params))))
       /\ (params.syncWindowSource = Null /\ params.syncStatus # "idle" =>
             /\ out # Null
             /\ out[1].message \in SaveMessages
             /\ out = resolveGlobalNotice(WithoutUpdate(params)))
       /\ (params.syncWindowSource = Null /\ params.syncStatus = "idle"
              /\ params.updateStatus # "idle" =>
             out # Null /\ out[1].message \in UpdateMessages)
       /\ (out = Null <=>
             /\ params.syncWindowSource = Null
             /\ params.syncStatus = "idle"
             /\ params.updateStatus = "idle")

\* C23 witness: the sync window of the initial load is open while a save has
\* failed and an update is downloading, and the notice is the sync window's
C23_Witness ==
  /\ fnCall.op = "resolveGlobalNotice"
  /\ fnCall.input.syncWindowSource = Some("initial_load")
  /\ fnCall.input.syncStatus = "error"
  /\ fnCall.input.updateStatus = "downloading"
  /\ fnCall.output =
       GlobalNoticePayload(<<"sync_window", "initial_load">>, TRUE, "info")


\* the result keeps the order of the input: it is the trimmed domains at
\* strictly increasing positions of the input
KeepsOrder(domains, result) ==
  \E at \in [1 .. Len(result) -> 1 .. Len(domains)] :
    /\ \A j \in 1 .. Len(result) : result[j] = Trim(domains[at[j]])
    /\ \A j, k \in 1 .. Len(result) : j < k => at[j] < at[k]

\* C25: normalizeBuiltinDictionaryDomains returns a list that contains only
\* domains of the current built-in snapshot, has no duplicates, keeps the
\* order of the input, and is never longer than the limit.
C25_NormalizeBuiltinDomains ==
  fnCall.op = "normalizeBuiltinDictionaryDomains" =>
    /\ \A j \in 1 .. Len(fnCall.output) : fnCall.output[j] \in fnCall.input.map
    /\ \A j, k \in 1 .. Len(fnCall.output) :
          j # k => fnCall.output[j] # fnCall.output[k]
    /\ KeepsOrder(fnCall.input.domains, fnCall.output)
    /\ Len(fnCall.output) <= fnCall.input.limit

\* C25 witness: of three domains, two of them in the snapshot and one of
\* those given twice, a limit of one keeps the first
C25_Witness ==
  /\ fnCall.op = "normalizeBuiltinDictionaryDomains"
  /\ fnCall.input.domains = <<<<" ", "k">>, <<"k">>, <<"k", "k">>>>
  /\ fnCall.input.map = {<<"k">>, <<"k", "k">>}
  /\ fnCall.input.limit = 1
  /\ fnCall.output = <<<<"k">>>>

\* C27: the capsule never remains in the entering phase forever: whatever
\* notices arrive and are cleared, a capsule in entering eventually is stable,
\* or exiting and then hidden.
C27_EnteringEnds == (phase = "entering") ~> (phase \in {"stable", "exiting", "hidden"})

\* C28: the overlay's 60 s lock timeout issues cancel_locked_recording only
\* for a session the overlay knows as locked and recording, never for one
\* for which it has received recording_stopped or transcribing.
C28_LockTimeoutOnlyWhileLocked ==
  [][LockTimeoutFires => isLocked /\ ovStatus = "recording"]_vars

\* C26: the debounced auto-save never calls handleSaveConfig while the status
\* is recording or transcribing: no timer is pending in those statuses (one
\* pending on entry is cleared, none is set), and the timer's callback saves
\* only after finding another status.
C26_NoAutoSaveWhileCapturing ==
  /\ status \in Capturing => ~autoSaveArmed
  /\ saveLast.op = "setTimeout" => saveLast.status \notin Capturing
  /\ saveLast.op = "handleSaveConfig" =>
        saveLast.status \notin Capturing /\ statusRef \notin Capturing

\* C26 witness: a recording began while the debounce timer was pending, and
\* the timer was cleared
C26_Witness ==
  /\ saveLast = [op |-> "setStatus", status |-> "recording", cleared |-> TRUE]
  /\ status = "recording"
  /\ autoSaveTimerRef = Null

\* C30: a restart of the service for a saved configuration (stop_app, then
\* start_app) is never issued while the status is recording or transcribing.
C30_NoRestartWhileCapturing ==
  saveLast.op \in {"stop_app", "start_app"} => saveLast.status \notin Capturing

\* the listeners of a run that the event system holds
SubscribedOf(run) == {sub \in subscribed : sub[1] = run}

\* C29: once the cleanup of a run of the listener effect has run, no listener
\* of that run stays subscribed: the only one that can be is the one whose
\* listen call was pending at the cleanup, it is unsubscribed in the step in
\* which its registration completes, and setup calls listen no more.
C29_NoListenerAfterCleanup ==
  /\ \A run \in Runs :
        mounts[run].cancelled =>
          IF mounts[run].at = "listen"
            THEN SubscribedOf(run) \subseteq {<<run, mounts[run].next>>}
            ELSE SubscribedOf(run) = {}
  /\ listenLast.op = "listen" => ~mounts[listenLast.run].cancelled
  /\ listenLast.op = "unlisten" =>
        /\ mounts[listenLast.run].at = "returned"
        /\ SubscribedOf(listenLast.run) = {}

\* C29 witness: the first run's cleanup ran while its third listen call was
\* pending; the registration completed afterwards and the listener was
\* unsubscribed at once, while the second run keeps its own listeners
C29_Witness ==
  /\ listenLast = ListenStep("unlisten", 1, 3)
  /\ mounts[1].cancelled
  /\ SubscribedOf(1) = {}
  /\ mounts[2].at = "listen"
  /\ SubscribedOf(2) = {<<2, 1>>}

\* the hot update's effect runs on settings that differ from the baseline
AppliesDue ==
  /\ applyLast'.op \notin {"none", "resolved"}
  /\ hasLoadedConfigRef /\ status' = "running"
  /\ lastAppliedConfigHashRef # Null
  /\ lastAppliedConfigHashRef # Some(hotConfig')

\* C31: the last-applied baseline is advanced only when update_runtime_config
\* has succeeded, update_runtime_config is invoked only while the status is
\* running, and a failed apply leaves the baseline as it was, so that the
\* effect, run again on the same settings, applies them again.
C31_BaselineAfterSuccess ==
  [][ /\ (lastAppliedConfigHashRef # Null
            /\ lastAppliedConfigHashRef' # lastAppliedConfigHashRef =>
              /\ applyLast' = ApplyStep("resolved", applyLast'.hash, status, TRUE,
                                        lastAppliedConfigHashRef)
              /\ lastAppliedConfigHashRef' = Some(applyLast'.hash))
      /\ (applyLast'.op = "update_runtime_config" =>
              status' = "running" /\ applyLast'.status = "running")
      /\ (applyLast'.op = "resolved" /\ ~applyLast'.ok =>
              lastAppliedConfigHashRef' = lastAppliedConfigHashRef)
      /\ (AppliesDue =>
              /\ applyLast'.op = "update_runtime_config"
              /\ applyLast'.hash = hotConfig'
              /\ applies'[hotConfig'] = applies[hotConfig'] + 1)
    ]_vars

\* C31 witness: the apply of changed settings failed while the status was
\* running; the baseline is still the earlier settings, so the changed
\* settings still count as not applied
C31_Witness ==
  /\ applyLast = ApplyStep("resolved", 2, "running", FALSE, Some(1))
  /\ hotConfig = 2
  /\ lastAppliedConfigHashRef = Some(1)
  /\ applies[2] = 0
====
